---- MODULE Spec2Model ----
(***************************************************************************)
(* Model of the Figma asset extractor's JSON preprocessing core            *)
(* (src/src/json_preprocessor.py) and of the filename / lookup-key scheme  *)
(* shared with FigmaExtractor and URLReplacer.                              *)
(*                                                                         *)
(* Conventions.  A Python string that is inspected character by character  *)
(* (node ids, filenames) is a sequence of one-character strings.  A dict   *)
(* is a function whose DOMAIN is the key set.  An optional key of a node   *)
(* (name, fills, isMask) is a sequence of length 0 (key absent) or 1 (the  *)
(* value).  None is the empty sequence, a present value a 1-sequence.      *)
(* A paint is represented by its type tag.  The 'bounds' field of a record  *)
(* (a copy of absoluteBoundingBox) is carried through unchanged by the code *)
(* and is left out of the records here.                                    *)
(***************************************************************************)
EXTENDS Naturals, Integers, Sequences, FiniteSets, TLC

VARIABLES
    pc,                          \* position inside preprocess_figma_json
    doc,                         \* raw_figma_data of the current run
    raw_before,                  \* the input as it was handed to the run
    other_input_before,          \* the instance's previous run was on another input
    stack,                       \* pending analyze_node calls (top first)
    stats,                       \* self.stats
    individual_vector_children,  \* self.individual_vector_children
    standalone_vectors,          \* self.standalone_vectors
    group_analysis,              \* last dict returned by _analyze_group_content
    decomposed,                  \* GROUP node indices handed to _analyze_group_content
    optimized_data,              \* the dict returned by preprocess_figma_json
    svg_export_calls,            \* the node id lists handed to export_svg_batch
    probe,                       \* input of the pure-function specifications
    probe_out                    \* outputs of the pure functions on probe

vars == <<pc, doc, raw_before, other_input_before, stack, stats, individual_vector_children,
          standalone_vectors, group_analysis, decomposed, optimized_data,
          svg_export_calls, probe, probe_out>>

(***************************************************************************)
(* Bounds of the model.                                                    *)
(***************************************************************************)
MaxNodes == 3      \* nodes of a freely shaped document
MaxDeep == 11      \* wrappers between a GROUP and the leaf of a deep chain
MaxNum == 12       \* largest <major> / <minor> of a probed native id
MaxFills == 2      \* longest fills list of a probed node

(***************************************************************************)
(* Strings as character sequences.                                         *)
(***************************************************************************)
DigitChars == <<"0", "1", "2", "3", "4", "5", "6", "7", "8", "9">>

RECURSIVE Decimal(_)
Decimal(n) ==
    IF n < 10 THEN <<DigitChars[n + 1]>>
    ELSE Decimal(n \div 10) \o <<DigitChars[(n % 10) + 1]>>

\* The design tool's native id "<major>:<minor>".
NativeId(major, minor) == Decimal(major) \o <<":">> \o Decimal(minor)

\* str.replace(old, new) for one-character old and new.
StrReplace(s, old, new) == [k \in 1..Len(s) |-> IF s[k] = old THEN new ELSE s[k]]

\* dict.get(key, default) on an optional key.
Get(opt, default) == IF Len(opt) = 0 THEN default ELSE opt[1]

DotSvg == <<".", "s", "v", "g">>

\* svg_dir / filename
PathJoin(dir, filename) == dir \o <<"/">> \o filename

SvgDir == <<"s", "v", "g", "_", "i", "c", "o", "n", "s">>

(***************************************************************************)
(* JSONPreprocessor._generate_filename                                     *)
(***************************************************************************)
GenerateFilename_NoSeparator(node_id) ==
    SelectSeq(node_id, LAMBDA c : c # ":") \o DotSvg

GenerateFilename(node_id) == StrReplace(node_id, ":", "_") \o DotSvg

SanitizeSvgFilename_WithName(node_id, name) ==
    StrReplace(node_id, ":", "_") \o <<"_">> \o name \o DotSvg

\* FigmaExtractor.sanitize_svg_filename
SanitizeSvgFilename(node_id, name) ==
    LET safe_id == StrReplace(node_id, ":", "_")
    IN  safe_id \o DotSvg

(***************************************************************************)
(* Documents.  Nodes are numbered 1..n in pre-order; parent[i] = 0 means   *)
(* node i is a child of the document root (a page).                        *)
(***************************************************************************)
NodeKind(type, fills, isMask) == [type |-> type, fills |-> fills, isMask |-> isMask]

Palette ==
    { NodeKind("CANVAS",    <<>>,              <<>>),
      NodeKind("FRAME",     <<<<"SOLID">>>>,   <<FALSE>>),
      NodeKind("GROUP",     <<>>,              <<>>),
      NodeKind("VECTOR",    <<<<"SOLID">>>>,   <<>>),
      NodeKind("VECTOR",    <<<<"IMAGE">>>>,   <<FALSE>>),
      NodeKind("VECTOR",    <<<<"SOLID">>>>,   <<TRUE>>),
      NodeKind("TEXT",      <<<<"SOLID">>>>,   <<>>),
      NodeKind("RECTANGLE", <<<<"IMAGE">>>>,   <<TRUE>>) }

RECURSIVE AncSelf(_, _)
AncSelf(p, j) == IF j = 0 THEN {0} ELSE {j} \cup AncSelf(p, p[j])

\* Parent vectors of the ordered forests with n nodes, numbered in pre-order.
Shapes(n) ==
    { p \in [1..n -> 0..n] :
        \A i \in 1..n : p[i] \in (IF i = 1 THEN {0} ELSE AncSelf(p, i - 1)) }

\* Node names are not unique in a document, and the key may be missing.
NameOf(i) == IF i % 3 = 0 THEN <<>> ELSE IF i % 3 = 1 THEN <<"Icon">> ELSE <<"Shape">>

MkDoc(hasDocument, p, k) ==
    [hasDocument |-> hasDocument, parent |-> p, kind |-> k,
     name |-> [i \in 1..Len(p) |-> NameOf(i)],
     id |-> [i \in 1..Len(p) |-> NativeId(1, i)]]

\* A freely shaped document of n nodes.
SmallDoc(p, k) == MkDoc(TRUE, p, k)

\* A GROUP, below it a chain of w wrappers, below them one leaf.
DeepDoc(w, wrapper, leaf) ==
    MkDoc(TRUE,
          [i \in 1..(w + 2) |-> i - 1],
          [i \in 1..(w + 2) |-> IF i = 1 THEN NodeKind("GROUP", <<>>, <<>>)
                                ELSE IF i = w + 2 THEN leaf ELSE wrapper])

DeepDocs ==
    { DeepDoc(w, wrapper, leaf) :
        w \in 0..MaxDeep,
        wrapper \in { NodeKind("FRAME", <<<<"SOLID">>>>, <<FALSE>>),
                      NodeKind("GROUP", <<>>, <<>>) },
        leaf \in Palette }

\* A response without a 'document' key.
NoDocument == MkDoc(FALSE, <<>>, <<>>)

Nodes(d) == 1..Len(d.parent)

\* node.get('children', []) in document order
Children(d, i) ==
    SelectSeq([j \in 1..Len(d.parent) |-> j], LAMBDA j : d.parent[j] = i)

NodeType(d, i) == d.kind[i].type


(***************************************************************************)
(* The strict vector classifier, once as the method used for standalone    *)
(* candidates and once as the inline test of examine_child.                *)
(***************************************************************************)
HasSolidFills_AnyFill(node) == Len(Get(node.fills, <<>>)) > 0

\* JSONPreprocessor._has_solid_fills: fills = node.get('fills', [])
HasSolidFills(node) ==
    LET fills == Get(node.fills, <<>>)
    IN  \E k \in 1..Len(fills) : fills[k] = "SOLID"

\* JSONPreprocessor._is_pure_vector
IsPureVector(node) ==
    IF node.type # "VECTOR" THEN FALSE
    ELSE IF ~HasSolidFills(node) THEN FALSE
    ELSE IF Get(node.isMask, FALSE) THEN FALSE
    ELSE TRUE

ExamineIncludes_IgnoreMask(child) ==
    child.type = "VECTOR" /\ HasSolidFills(child)

\* The INCLUDE condition of examine_child
ExamineIncludes(child) ==
    child.type = "VECTOR" /\ HasSolidFills(child) /\ ~Get(child.isMask, FALSE)

(***************************************************************************)
(* JSONPreprocessor._analyze_group_content                                 *)
(***************************************************************************)
DepthCap == 5

EmptyAnalysis ==
    [vector_children |-> <<>>, non_vector_children |-> <<>>,
     text_nodes_filtered |-> 0, image_shapes_filtered |-> 0]

\* One visit of examine_child, without the recursion: the entry it appends
\* and the counter it increments.
ExamineOne(d, c, acc) ==
    LET child == d.kind[c] IN
    IF ExamineIncludes(child)
    THEN [acc EXCEPT !.vector_children =
              Append(@, [id |-> d.id[c], name |-> Get(d.name[c], "Vector"),
                         type |-> child.type])]
    ELSE IF child.type = "TEXT"
    THEN [acc EXCEPT !.text_nodes_filtered = @ + 1,
                     !.non_vector_children = Append(@, "TEXT")]
    ELSE IF child.type \in {"RECTANGLE", "ELLIPSE"}
    THEN [acc EXCEPT !.image_shapes_filtered = @ + 1,
                     !.non_vector_children = Append(@, "SHAPE")]
    ELSE IF Get(child.isMask, FALSE)
    THEN [acc EXCEPT !.image_shapes_filtered = @ + 1,
                     !.non_vector_children = Append(@, "MASK")]
    ELSE [acc EXCEPT !.non_vector_children = Append(@, child.type)]

RECURSIVE ExamineChild(_, _, _, _)
RECURSIVE ExamineAll(_, _, _, _)

ExamineChild_NoCap(d, c, depth, acc) ==
    ExamineAll(d, Children(d, c), depth + 1, ExamineOne(d, c, acc))

ExamineChild_CapOneEarly(d, c, depth, acc) ==
    IF depth >= DepthCap THEN acc
    ELSE ExamineAll(d, Children(d, c), depth + 1, ExamineOne(d, c, acc))

ExamineChild_CountThenCap(d, c, depth, acc) ==
    IF depth > DepthCap THEN ExamineOne(d, c, acc)
    ELSE ExamineAll(d, Children(d, c), depth + 1, ExamineOne(d, c, acc))

\* examine_child(child, depth): acc carries the two lists and the counters
ExamineChild(d, c, depth, acc) ==
    IF depth > DepthCap THEN acc
    ELSE ExamineAll(d, Children(d, c), depth + 1, ExamineOne(d, c, acc))

\* for grandchild in ...: examine_child(grandchild, depth)
ExamineAll(d, cs, depth, acc) ==
    IF cs = <<>> THEN acc
    ELSE ExamineAll(d, Tail(cs), depth, ExamineChild(d, Head(cs), depth, acc))

Range(s) == { s[k] : k \in 1..Len(s) }

AnalyzeGroupContent(d, g) ==
    LET acc == ExamineAll(d, Children(d, g), 0, EmptyAnalysis)
    IN  [vector_children |-> acc.vector_children,
         filtered_content |-> Range(acc.non_vector_children),
         vector_count |-> Len(acc.vector_children),
         text_nodes_filtered |-> acc.text_nodes_filtered,
         image_shapes_filtered |-> acc.image_shapes_filtered]

(***************************************************************************)
(* Dicts                                                                   *)
(***************************************************************************)
EmptyDict == [x \in {} |-> x]

Put(dict, key, value) ==
    [x \in (DOMAIN dict) \cup {key} |-> IF x = key THEN value ELSE dict[x]]

(***************************************************************************)
(* JSONPreprocessor.__init__ / _reset_stats                                *)
(***************************************************************************)
ZeroStats ==
    [total_nodes_scanned |-> 0, groups_analyzed |-> 0,
     vector_children_found |-> 0, individual_vectors_found |-> 0,
     text_nodes_filtered |-> 0, image_shapes_filtered |-> 0,
     empty_groups_skipped |-> 0, total_vector_exports |-> 0]

None == <<>>

\* Inputs handed to an instance that has already completed a run.
RerunDocs ==
    { DeepDoc(0, NodeKind("GROUP", <<>>, <<>>), NodeKind("VECTOR", <<<<"SOLID">>>>, <<>>)),
      DeepDoc(0, NodeKind("GROUP", <<>>, <<>>), NodeKind("TEXT", <<<<"SOLID">>>>, <<>>)),
      MkDoc(TRUE, <<0, 1>>, <<NodeKind("CANVAS", <<>>, <<>>),
                              NodeKind("VECTOR", <<<<"SOLID">>>>, <<>>)>>) }

\* A fresh JSONPreprocessor and the document the caller is about to hand it.
Init ==
    /\ pc = "idle"
    /\ \/ \E n \in 0..MaxNodes : \E p \in Shapes(n) : \E k \in [1..n -> Palette] :
              doc = SmallDoc(p, k)
       \/ doc \in DeepDocs
       \/ doc = NoDocument
    /\ raw_before = doc
    /\ other_input_before = FALSE
    /\ stack = <<>>
    /\ stats = ZeroStats
    /\ individual_vector_children = EmptyDict
    /\ standalone_vectors = EmptyDict
    /\ group_analysis = None
    /\ decomposed = {}
    /\ optimized_data = None
    /\ svg_export_calls = <<>>
    /\ probe = None
    /\ probe_out = None

(***************************************************************************)
(* preprocess_figma_json, entry: _reset_stats and the start of the         *)
(* traversal at the document's pages.                                      *)
(***************************************************************************)
CallFrame(node, path, parent_group) ==
    [node |-> node, path |-> path, parent_group |-> parent_group]

PagesOf(d) ==
    IF d.hasDocument
    THEN [k \in 1..Len(Children(d, 0)) |-> CallFrame(Children(d, 0)[k], <<>>, None)]
    ELSE <<>>

ResetStats_CountersOnly(counters, children, standalone) ==
    [stats |-> ZeroStats,
     individual_vector_children |-> children,
     standalone_vectors |-> standalone]

\* JSONPreprocessor._reset_stats
ResetStats(counters, children, standalone) ==
    [stats |-> [key \in DOMAIN counters |-> 0],
     individual_vector_children |-> EmptyDict,
     standalone_vectors |-> EmptyDict]

Preprocess ==
    /\ pc = "idle"
    /\ pc' = "analyzing"
    /\ raw_before' = doc
    /\ LET reset == ResetStats(stats, individual_vector_children, standalone_vectors)
       IN  /\ stats' = reset.stats
           /\ individual_vector_children' = reset.individual_vector_children
           /\ standalone_vectors' = reset.standalone_vectors
    /\ stack' = PagesOf(doc)
    /\ group_analysis' = None
    /\ decomposed' = {}
    /\ optimized_data' = None
    /\ UNCHANGED <<doc, other_input_before, svg_export_calls, probe, probe_out>>

\* The caller hands the same instance another document (or the same one again).
NextInput(d) ==
    /\ pc = "done"
    /\ pc' = "idle"
    /\ doc' = d
    /\ raw_before' = d
    /\ other_input_before' = (d # raw_before)
    /\ UNCHANGED <<stack, stats, individual_vector_children, standalone_vectors,
                   group_analysis, decomposed, optimized_data, svg_export_calls,
                   probe, probe_out>>

(***************************************************************************)
(* analyze_node: one call, the recursive calls it makes are pushed.        *)
(***************************************************************************)
RECURSIVE StoreVectorChildren(_, _, _, _, _)
StoreVectorChildren(dict, vcs, current_path, node_id, node_name) ==
    IF vcs = <<>> THEN dict
    ELSE LET vc == Head(vcs) IN
         StoreVectorChildren(
             Put(dict, vc.id,
                 [id |-> vc.id, name |-> vc.name, type |-> vc.type,
                  path |-> Append(current_path, vc.name),
                  parent_group_id |-> node_id,
                  parent_group_name |-> node_name,
                  extraction_reason |-> "VECTOR_CHILD_FROM_GROUP"]),
             Tail(vcs), current_path, node_id, node_name)

ChildCalls_GroupAsFrame(d, i, current_path, parent_group) ==
    LET cs == Children(d, i)
        current_group ==
            IF NodeType(d, i) \in {"GROUP", "FRAME", "COMPONENT", "INSTANCE"}
            THEN <<[id |-> d.id[i], name |-> Get(d.name[i], "Unnamed")]>>
            ELSE parent_group
    IN  [k \in 1..Len(cs) |-> CallFrame(cs[k], current_path, current_group)]

ChildCalls_IntoGroups(d, i, current_path, parent_group) ==
    LET cs == Children(d, i)
        current_group ==
            IF NodeType(d, i) \in {"FRAME", "COMPONENT", "INSTANCE"}
            THEN <<[id |-> d.id[i], name |-> Get(d.name[i], "Unnamed")]>>
            ELSE parent_group
    IN  [k \in 1..Len(cs) |-> CallFrame(cs[k], current_path, current_group)]

\* The recursive calls one analyze_node call makes: none for a GROUP (the
\* return after the GROUP branch, and the type guard of the loop), else one
\* per child, with the FRAME / COMPONENT / INSTANCE context replaced.
ChildCalls(d, i, current_path, parent_group) ==
    IF NodeType(d, i) # "GROUP"
    THEN LET cs == Children(d, i)
             current_group ==
                 IF NodeType(d, i) \in {"FRAME", "COMPONENT", "INSTANCE"}
                 THEN <<[id |-> d.id[i], name |-> Get(d.name[i], "Unnamed")]>>
                 ELSE parent_group
         IN  [k \in 1..Len(cs) |-> CallFrame(cs[k], current_path, current_group)]
    ELSE <<>>

\* The analysis state one analyze_node call reads and writes.
Analysis(calls, counters, children, standalone, last_analysis, groups) ==
    [stack |-> calls, stats |-> counters,
     individual_vector_children |-> children,
     standalone_vectors |-> standalone,
     group_analysis |-> last_analysis, decomposed |-> groups]

\* The body of analyze_node for the call on top of the stack.
AnalyzeStep(d, a) ==
    LET call == Head(a.stack)
        i == call.node
        node_type == NodeType(d, i)
        node_id == d.id[i]
        node_name == Get(d.name[i], "Unnamed")
        current_path == Append(call.path, node_name)
        scanned == [a.stats EXCEPT !.total_nodes_scanned = @ + 1]
        calls == ChildCalls(d, i, current_path, call.parent_group) \o Tail(a.stack)
    IN
    IF node_type = "GROUP"
    THEN LET ga == AnalyzeGroupContent(d, i)
             s1 == [scanned EXCEPT
                       !.groups_analyzed = @ + 1,
                       !.text_nodes_filtered = @ + ga.text_nodes_filtered,
                       !.image_shapes_filtered = @ + ga.image_shapes_filtered]
         IN  IF ga.vector_children # <<>>
             THEN Analysis(calls,
                      [s1 EXCEPT !.vector_children_found = @ + Len(ga.vector_children)],
                      StoreVectorChildren(a.individual_vector_children,
                          ga.vector_children, current_path, node_id, node_name),
                      a.standalone_vectors, <<ga>>, a.decomposed \cup {i})
             ELSE Analysis(calls,
                      [s1 EXCEPT !.empty_groups_skipped = @ + 1],
                      a.individual_vector_children,
                      a.standalone_vectors, <<ga>>, a.decomposed \cup {i})
    ELSE IF IsPureVector(d.kind[i]) /\ call.parent_group = None
         THEN Analysis(calls,
                  [scanned EXCEPT !.individual_vectors_found = @ + 1],
                  a.individual_vector_children,
                  Put(a.standalone_vectors, node_id,
                      [id |-> node_id, name |-> node_name,
                       type |-> node_type, path |-> current_path,
                       extraction_reason |-> "STANDALONE_VECTOR"]),
                  a.group_analysis, a.decomposed)
         ELSE Analysis(calls, scanned, a.individual_vector_children,
                       a.standalone_vectors, a.group_analysis, a.decomposed)

AnalyzeNode ==
    /\ pc = "analyzing"
    /\ stack # <<>>
    /\ LET a == AnalyzeStep(doc, Analysis(stack, stats, individual_vector_children,
                                          standalone_vectors, group_analysis, decomposed))
       IN  /\ stack' = a.stack
           /\ stats' = a.stats
           /\ individual_vector_children' = a.individual_vector_children
           /\ standalone_vectors' = a.standalone_vectors
           /\ group_analysis' = a.group_analysis
           /\ decomposed' = a.decomposed
    /\ UNCHANGED <<pc, doc, raw_before, other_input_before, optimized_data,
                   svg_export_calls, probe, probe_out>>

(***************************************************************************)
(* End of the traversal: total_vector_exports, _generate_child_based_json  *)
(* and _add_preprocessing_metadata.                                        *)
(***************************************************************************)
\* The _svgDownloads section
SvgDownloads(children, standalone) ==
    [node_id \in (DOMAIN children) \cup (DOMAIN standalone) |->
        IF node_id \in DOMAIN standalone
        THEN [node_id |-> node_id, type |-> "VECTOR", is_group |-> FALSE,
              component_name |-> standalone[node_id].name,
              path |-> standalone[node_id].path,
              filename |-> GenerateFilename(node_id),
              extraction_reason |-> standalone[node_id].extraction_reason]
        ELSE [node_id |-> node_id, type |-> "VECTOR", is_group |-> FALSE,
              component_name |-> children[node_id].name,
              path |-> children[node_id].path,
              filename |-> GenerateFilename(node_id),
              extraction_reason |-> children[node_id].extraction_reason,
              parent_group_id |-> children[node_id].parent_group_id,
              parent_group_name |-> children[node_id].parent_group_name]]

SvgMapping_KeepColon(downloads) ==
    [node_id \in DOMAIN downloads |->
        [filename |-> downloads[node_id].filename, is_group |-> FALSE,
         component_name |-> downloads[node_id].component_name]]

\* The _svgMapping section
SvgMapping(downloads) ==
    [safe_node_id \in { StrReplace(node_id, ":", "_") : node_id \in DOMAIN downloads } |->
        LET node_id == CHOOSE n \in DOMAIN downloads :
                           StrReplace(n, ":", "_") = safe_node_id
        IN  [filename |-> downloads[node_id].filename, is_group |-> FALSE,
             component_name |-> downloads[node_id].component_name]]

JsonRoundTrip_NoCopy(original_data) == [data |-> original_data, shared |-> TRUE]

\* json.loads(json.dumps(original_data)): a new object tree with the same
\* content (keys are strings, values lists, strings and booleans), sharing
\* nothing with the original.
JsonRoundTrip(original_data) == [data |-> original_data, shared |-> FALSE]

\* optimized_data['_svgDownloads'] = ..., ['_svgMapping'] = ..., and the
\* '_metadata' written by _add_preprocessing_metadata
AddSections(data, downloads, counters) ==
    [key \in (DOMAIN data) \cup {"svgDownloads", "svgMapping", "metadata"} |->
        IF key = "svgDownloads" THEN downloads
        ELSE IF key = "svgMapping" THEN SvgMapping(downloads)
        ELSE IF key = "metadata"
             THEN [preprocessing |-> [statistics |-> counters],
                   preprocessing_applied |-> TRUE]
        ELSE data[key]]

\* Steps 1 (last line) to 3 of preprocess_figma_json once the traversal has
\* ended: the final counters, the returned dict and the input object as it
\* is after the call.
Finish(d, counters, children, standalone) ==
    LET total == Cardinality(DOMAIN children) + Cardinality(DOMAIN standalone)
        final == [counters EXCEPT !.total_vector_exports = total]
        copy == JsonRoundTrip(d)
        optimized == AddSections(copy.data, SvgDownloads(children, standalone), final)
    IN  [stats |-> final,
         optimized_data |-> optimized,
         raw_after |-> IF copy.shared THEN optimized ELSE d]

GenerateJson ==
    /\ pc = "analyzing"
    /\ stack = <<>>
    /\ LET out == Finish(doc, stats, individual_vector_children, standalone_vectors)
       IN  /\ stats' = out.stats
           /\ optimized_data' = <<out.optimized_data>>
           /\ doc' = out.raw_after
    /\ pc' = "done"
    /\ UNCHANGED <<raw_before, other_input_before, stack, individual_vector_children,
                   standalone_vectors, group_analysis, decomposed,
                   svg_export_calls, probe, probe_out>>

(***************************************************************************)
(* The download stage of main: download_svg_icons on the preprocessed      *)
(* file_data, then the _svgDownloads and _svgMapping sections rewritten    *)
(* from what was downloaded.                                               *)
(***************************************************************************)
\* dict.get(key, default) on a record
GetKey(record, key, default) == IF key \in DOMAIN record THEN record[key] ELSE default

\* One entry of individual_vectors in download_svg_icons_from_preprocessed
PlannedVector(node_id, svg_info) ==
    [id |-> node_id,
     name |-> svg_info.component_name,
     type |-> svg_info.type,
     filename |-> svg_info.filename,
     path |-> GetKey(svg_info, "path", <<>>),
     extraction_reason |-> GetKey(svg_info, "extraction_reason", "INDIVIDUAL_VECTOR"),
     parent_group |-> GetKey(svg_info, "parent_group_name", <<"None">>)]

\* downloaded_svgs[node_id] of a vector whose SVG was exported, fetched and
\* saved; the export URL and the file size are the service's and the file
\* system's.
DownloadedSvg(vector) ==
    [local_path |-> PathJoin(SvgDir, vector.filename),
     figma_url |-> <<"svg-url-of", vector.id>>,
     filename |-> vector.filename,
     component_name |-> vector.name,
     file_size |-> <<"size-of", vector.filename>>,
     node_id |-> vector.id,
     type |-> vector.type,
     extraction_reason |-> vector.extraction_reason,
     path |-> vector.path,
     parent_group |-> vector.parent_group,
     is_group |-> FALSE]

\* download_svg_icons_from_preprocessed on a non-empty _svgDownloads, the
\* nodes of saved being those whose batch export, download and save succeeded
DownloadSvgIconsFromPreprocessed(svg_downloads_structure, saved) ==
    [node_id \in saved |->
        DownloadedSvg(PlannedVector(node_id, svg_downloads_structure[node_id]))]

\* The _svgMapping main writes
MainSvgMapping(downloaded_svgs) ==
    [safe_node_id \in { StrReplace(downloaded_svgs[n].node_id, ":", "_") :
                          n \in DOMAIN downloaded_svgs } |->
        LET svg_data == downloaded_svgs[CHOOSE n \in DOMAIN downloaded_svgs :
                            StrReplace(downloaded_svgs[n].node_id, ":", "_") = safe_node_id]
        IN  [filename |-> svg_data.filename, is_individual |-> TRUE,
             component_name |-> svg_data.component_name,
             parent_group |-> GetKey(svg_data, "parent_group", <<"None">>),
             child_based_extraction |-> TRUE]]

BatchSize == 10

Batch_OneTooMany(items, i) ==
    SubSeq(items, i + 1, IF i + BatchSize + 1 < Len(items)
                         THEN i + BatchSize + 1 ELSE Len(items))

\* items[i:i + batch_size]
Batch(items, i) ==
    SubSeq(items, i + 1, IF i + BatchSize < Len(items) THEN i + BatchSize ELSE Len(items))

\* for i in range(0, len(items), batch_size): the batches from offset i on
RECURSIVE Batches(_, _)
Batches(items, i) ==
    IF i >= Len(items) THEN <<>>
    ELSE <<Batch(items, i)>> \o Batches(items, i + BatchSize)

\* The ids of individual_vectors, in the order of the _svgDownloads dict:
\* the group children as they were found, then the standalone vectors.
PlannedIds(file_data) ==
    SelectSeq(file_data.id,
              LAMBDA n : /\ n \in DOMAIN file_data.svgDownloads
                         /\ file_data.svgDownloads[n].extraction_reason
                                = "VECTOR_CHILD_FROM_GROUP")
    \o SelectSeq(file_data.id,
                 LAMBDA n : /\ n \in DOMAIN file_data.svgDownloads
                            /\ file_data.svgDownloads[n].extraction_reason
                                   # "VECTOR_CHILD_FROM_GROUP")

\* FigmaExtractor.find_svg_components_fallback: every node is visited, in
\* document order; no node of these documents has a 'visible' key.
FindSvgComponentsFallback(file_data, include_all_exportable) ==
    IF ~file_data.hasDocument THEN <<>>
    ELSE LET Exported(i) ==
                 IF include_all_exportable
                 THEN file_data.kind[i].type \in {"COMPONENT", "VECTOR", "INSTANCE"}
                 ELSE file_data.kind[i].type = "COMPONENT"
             Reason(i) ==
                 IF file_data.kind[i].type = "VECTOR" THEN "SHAPE_VECTOR"
                 ELSE file_data.kind[i].type
             found == SelectSeq([i \in 1..Len(file_data.parent) |-> i], Exported)
         IN  [k \in 1..Len(found) |->
                 [id |-> file_data.id[found[k]],
                  name |-> Get(file_data.name[found[k]], "Unnamed"),
                  type |-> file_data.kind[found[k]].type,
                  reason |-> Reason(found[k])]]

\* downloaded_svgs[node_id] of download_svg_icons_fallback
DownloadedFallbackSvg(component) ==
    [local_path |-> PathJoin(SvgDir, SanitizeSvgFilename(component.id, component.name)),
     figma_url |-> <<"svg-url-of", component.id>>,
     filename |-> SanitizeSvgFilename(component.id, component.name),
     component_name |-> component.name,
     file_size |-> <<"size-of", SanitizeSvgFilename(component.id, component.name)>>,
     node_id |-> component.id,
     type |-> component.type,
     reason |-> component.reason,
     path |-> <<>>,
     is_group |-> FALSE]

\* download_svg_icons_fallback, the components of saved being those whose
\* batch export, download and save succeeded
DownloadSvgIconsFallback(components, saved) ==
    [node_id \in saved |->
        DownloadedFallbackSvg(
            components[CHOOSE k \in 1..Len(components) : components[k].id = node_id])]

\* The ids download_svg_icons plans to export for file_data: those of
\* _svgDownloads, or, when that section is missing or empty, those of the
\* fallback component finder.
ExportPlan(file_data) ==
    IF "svgDownloads" \notin DOMAIN file_data \/ file_data.svgDownloads = EmptyDict
    THEN LET components == FindSvgComponentsFallback(file_data, TRUE)
         IN  [k \in 1..Len(components) |-> components[k].id]
    ELSE PlannedIds(file_data)

\* main after preprocessing: the metadata flags, download_svg_icons (which
\* takes the preprocessed path because preprocessing_applied is set) and,
\* if anything was downloaded, the rewritten sections.
DownloadSvgIcons ==
    /\ pc = "done"
    /\ optimized_data[1].metadata.preprocessing_applied
    /\ svg_export_calls' = svg_export_calls \o Batches(ExportPlan(optimized_data[1]), 0)
    /\ \E saved \in SUBSET Range(ExportPlan(optimized_data[1])) :
          LET file_data == optimized_data[1]
              downloaded_svgs ==
                  IF file_data.svgDownloads = EmptyDict
                  THEN DownloadSvgIconsFallback(
                           FindSvgComponentsFallback(file_data, TRUE), saved)
                  ELSE DownloadSvgIconsFromPreprocessed(file_data.svgDownloads, saved)
              flagged == [key \in DOMAIN file_data.metadata \cup {"child_based_extraction"} |->
                             IF key = "child_based_extraction" THEN TRUE
                             ELSE file_data.metadata[key]]
          IN  optimized_data' =
                  IF downloaded_svgs # EmptyDict
                  THEN <<[file_data EXCEPT
                            !.metadata =
                                [key \in DOMAIN flagged \cup {"fixed_svg_extraction"} |->
                                    IF key = "fixed_svg_extraction"
                                    THEN [total_individual_svgs |->
                                              Cardinality(DOMAIN downloaded_svgs),
                                          extraction_mode |-> "child_based_individual_vectors"]
                                    ELSE flagged[key]],
                            !.svgDownloads = downloaded_svgs,
                            !.svgMapping = MainSvgMapping(downloaded_svgs)]>>
                  ELSE <<[file_data EXCEPT !.metadata = flagged]>>
    /\ pc' = "persisted"
    /\ UNCHANGED <<doc, raw_before, other_input_before, stack, stats,
                   individual_vector_children, standalone_vectors,
                   group_analysis, decomposed, probe, probe_out>>

Next ==
    \/ Preprocess
    \/ \E d \in RerunDocs \cup {doc} : NextInput(d)
    \/ AnalyzeNode
    \/ GenerateJson
    \/ DownloadSvgIcons

Spec == Init /\ [][Next]_vars


(***************************************************************************)
(* Reference notions on documents, stated without the traversal.           *)
(***************************************************************************)
RECURSIVE Ancestors(_, _)
Ancestors(d, i) ==
    IF d.parent[i] = 0 THEN {} ELSE {d.parent[i]} \cup Ancestors(d, d.parent[i])

GroupAncestors(d, i) == { a \in Ancestors(d, i) : NodeType(d, a) = "GROUP" }

InGroup(d, i) == GroupAncestors(d, i) # {}

\* Pre-order numbering: a deeper ancestor has a larger index.
NearestGroup(d, i) == CHOOSE g \in GroupAncestors(d, i) : \A h \in GroupAncestors(d, i) : h <= g

OutermostGroup(d, i) == CHOOSE g \in GroupAncestors(d, i) : \A h \in GroupAncestors(d, i) : g <= h

\* Levels of i below the direct children of its ancestor g (a direct child is at 0).
RelDepth(d, g, i) == Cardinality({ a \in Ancestors(d, i) : a > g })

QualifyingVector(node) ==
    /\ node.type = "VECTOR"
    /\ node.fills # <<>> /\ "SOLID" \in Range(node.fills[1])
    /\ node.isMask # <<TRUE>>

ImageOnlyVector(node) ==
    /\ node.type = "VECTOR"
    /\ node.fills # <<>> /\ node.fills[1] # <<>>
    /\ Range(node.fills[1]) = {"IMAGE"}

Done == pc = "done"

Downloads == optimized_data[1].svgDownloads

GroupChildIds == DOMAIN individual_vector_children

StandaloneIds == DOMAIN standalone_vectors

(***************************************************************************)
(* C1: after a run on a document with unique node ids, no node id is in    *)
(* both the VECTOR_CHILD_FROM_GROUP record set and the STANDALONE_VECTOR   *)
(* record set, and no id was stored twice in either set (each counter of   *)
(* stored records equals the number of ids of its set).                    *)
(***************************************************************************)
C1_RecordSetsDisjoint ==
    Done =>
        /\ GroupChildIds \cap StandaloneIds = {}
        /\ stats.vector_children_found = Cardinality(GroupChildIds)
        /\ stats.individual_vectors_found = Cardinality(StandaloneIds)
        /\ \A id \in GroupChildIds :
              individual_vector_children[id].extraction_reason = "VECTOR_CHILD_FROM_GROUP"
        /\ \A id \in StandaloneIds :
              standalone_vectors[id].extraction_reason = "STANDALONE_VECTOR"

C1_Witness ==
    /\ Done
    /\ GroupChildIds # {}
    /\ StandaloneIds # {}

(***************************************************************************)
(* C2: when a GROUP contains an inner GROUP that contains a qualifying     *)
(* vector, the vector's export record names the inner (nearest enclosing)  *)
(* GROUP as parent_group_id / parent_group_name.                           *)
(***************************************************************************)
C2_NearestGroupIsParent ==
    Done =>
        \A i \in Nodes(doc) :
            ( /\ QualifyingVector(doc.kind[i])
              /\ Cardinality(GroupAncestors(doc, i)) >= 2
              /\ doc.id[i] \in DOMAIN Downloads )
            => LET inner == NearestGroup(doc, i) IN
               /\ Downloads[doc.id[i]].parent_group_id = doc.id[inner]
               /\ Downloads[doc.id[i]].parent_group_name = Get(doc.name[inner], "Unnamed")

(***************************************************************************)
(* C3: every node that passes the strict classifier and has no GROUP       *)
(* ancestor, at any depth, has exactly one export record, tagged           *)
(* STANDALONE_VECTOR, without parent fields, with filename                 *)
(* derive_filename(id).                                                    *)
(***************************************************************************)
C3_EveryUngroupedVectorIsStandalone ==
    Done =>
        \A i \in Nodes(doc) :
            (QualifyingVector(doc.kind[i]) /\ ~InGroup(doc, i))
            => /\ doc.id[i] \in DOMAIN Downloads
               /\ doc.id[i] \in StandaloneIds
               /\ Downloads[doc.id[i]].extraction_reason = "STANDALONE_VECTOR"
               /\ "parent_group_id" \notin DOMAIN Downloads[doc.id[i]]
               /\ "parent_group_name" \notin DOMAIN Downloads[doc.id[i]]
               /\ Downloads[doc.id[i]].filename = GenerateFilename(doc.id[i])

(***************************************************************************)
(* C4: for each GROUP the preprocessor decomposes, every descendant within *)
(* the inspection depth cap that passes the strict classifier has one      *)
(* record, keyed by its own id, tagged VECTOR_CHILD_FROM_GROUP, with that  *)
(* GROUP's id and name as parent and derive_filename(id) as filename; a    *)
(* descendant that does not pass the classifier has no record.             *)
(***************************************************************************)
C4_GroupChildrenRecorded ==
    Done =>
        \A g \in decomposed : \A i \in Nodes(doc) :
            g \in Ancestors(doc, i) =>
                IF QualifyingVector(doc.kind[i])
                THEN RelDepth(doc, g, i) <= DepthCap =>
                        /\ doc.id[i] \in DOMAIN Downloads
                        /\ Downloads[doc.id[i]].node_id = doc.id[i]
                        /\ Downloads[doc.id[i]].extraction_reason = "VECTOR_CHILD_FROM_GROUP"
                        /\ Downloads[doc.id[i]].parent_group_id = doc.id[g]
                        /\ Downloads[doc.id[i]].parent_group_name = Get(doc.name[g], "Unnamed")
                        /\ Downloads[doc.id[i]].filename = GenerateFilename(doc.id[i])
                ELSE doc.id[i] \notin DOMAIN Downloads

C4_Witness ==
    /\ Done
    /\ \E g \in decomposed : \E i, j \in Nodes(doc) :
          /\ g \in Ancestors(doc, i)
          /\ g \in Ancestors(doc, j)
          /\ QualifyingVector(doc.kind[i])
          /\ RelDepth(doc, g, i) = DepthCap
          /\ doc.id[i] \in DOMAIN Downloads
          /\ ~QualifyingVector(doc.kind[j])

(***************************************************************************)
(* C6: for every GROUP of the document with no qualifying descendant       *)
(* vector, no record names it as parent and empty_groups_skipped was       *)
(* incremented once for it: at the end of a run the counter equals the     *)
(* number of such GROUPs.                                                  *)
(***************************************************************************)
EmptyGroups(d) ==
    { g \in Nodes(d) :
        /\ NodeType(d, g) = "GROUP"
        /\ ~\E i \in Nodes(d) : g \in Ancestors(d, i) /\ QualifyingVector(d.kind[i]) }

C6_EmptyGroupsCounted ==
    Done =>
        /\ \A g \in EmptyGroups(doc) : \A id \in GroupChildIds :
              individual_vector_children[id].parent_group_id # doc.id[g]
        /\ stats.empty_groups_skipped = Cardinality(EmptyGroups(doc))

(***************************************************************************)
(* C7 (as claimed): a TEXT node anywhere inside a GROUP subtree is in no   *)
(* export record, and text_nodes_filtered ends equal to the number of TEXT *)
(* nodes inside GROUP subtrees.                                            *)
(***************************************************************************)
TextInGroups(d) == { i \in Nodes(d) : NodeType(d, i) = "TEXT" /\ InGroup(d, i) }

C7_TextCountedEverywhere ==
    Done =>
        /\ \A i \in TextInGroups(doc) : doc.id[i] \notin DOMAIN Downloads
        /\ stats.text_nodes_filtered = Cardinality(TextInGroups(doc))

(***************************************************************************)
(* C7 (amended): a TEXT node anywhere inside a GROUP subtree is in no      *)
(* export record, and text_nodes_filtered ends equal to the number of TEXT *)
(* nodes that lie within the inspection depth cap of the outermost GROUP   *)
(* enclosing them.                                                         *)
(***************************************************************************)
TextWithinCap(d) ==
    { i \in TextInGroups(d) : RelDepth(d, OutermostGroup(d, i), i) <= DepthCap }

C7_TextCountedWithinCap ==
    Done =>
        /\ \A i \in TextInGroups(doc) : doc.id[i] \notin DOMAIN Downloads
        /\ stats.text_nodes_filtered = Cardinality(TextWithinCap(doc))

C7_Witness ==
    /\ Done
    /\ stats.text_nodes_filtered = 1
    /\ \E i \in TextInGroups(doc) :
          RelDepth(doc, OutermostGroup(doc, i), i) = DepthCap

(***************************************************************************)
(* C8: a VECTOR whose fills hold only IMAGE paints has no export record,   *)
(* neither as group child nor as standalone vector, and is counted by      *)
(* neither vector_children_found nor individual_vectors_found: the two     *)
(* counters count recorded nodes only.                                     *)
(***************************************************************************)
C8_ImageOnlyVectorExcluded ==
    Done =>
        /\ \A i \in Nodes(doc) :
              ImageOnlyVector(doc.kind[i]) =>
                  /\ doc.id[i] \notin DOMAIN Downloads
                  /\ doc.id[i] \notin GroupChildIds
                  /\ doc.id[i] \notin StandaloneIds
        /\ stats.vector_children_found + stats.individual_vectors_found
              = Cardinality(GroupChildIds \cup StandaloneIds)

C8_Witness ==
    /\ Done
    /\ \E i, j \in Nodes(doc) :
          /\ ImageOnlyVector(doc.kind[i]) /\ InGroup(doc, i)
          /\ ImageOnlyVector(doc.kind[j]) /\ Ancestors(doc, j) = {}


(***************************************************************************)
(* The two inclusion tests as pure functions of one node.                  *)
(***************************************************************************)
PaintTypes == {"SOLID", "IMAGE", "GRADIENT_LINEAR"}

ProbeTypes ==
    {"VECTOR", "GROUP", "FRAME", "TEXT", "RECTANGLE", "ELLIPSE", "BOOLEAN_OPERATION"}

\* no fills key, or a list of at most MaxFills paints
ProbeFills ==
    {<<>>} \cup { <<f>> : f \in UNION { [1..n -> PaintTypes] : n \in 0..MaxFills } }

ProbeNodes ==
    { NodeKind(t, f, m) : t \in ProbeTypes, f \in ProbeFills,
                          m \in {<<>>, <<TRUE>>, <<FALSE>>} }

Idle ==
    /\ doc = NoDocument
    /\ raw_before = NoDocument
    /\ other_input_before = FALSE
    /\ stack = <<>>
    /\ stats = ZeroStats
    /\ individual_vector_children = EmptyDict
    /\ standalone_vectors = EmptyDict
    /\ group_analysis = None
    /\ decomposed = {}
    /\ optimized_data = None
    /\ svg_export_calls = <<>>

preprocessor_vars ==
    <<doc, raw_before, other_input_before, stack, stats, individual_vector_children,
      standalone_vectors, group_analysis, decomposed, optimized_data,
      svg_export_calls>>

InitClassifier ==
    /\ Idle
    /\ pc = "probe"
    /\ probe \in { <<n>> : n \in ProbeNodes }
    /\ probe_out = None

Classify ==
    /\ pc = "probe"
    /\ probe_out = None
    /\ probe_out' = <<[is_pure_vector |-> IsPureVector(probe[1]),
                       examine_includes |-> ExamineIncludes(probe[1])]>>
    /\ pc' = "classified"
    /\ UNCHANGED <<probe, preprocessor_vars>>

NextClassifier == Classify

SpecClassifier == InitClassifier /\ [][NextClassifier]_vars

(***************************************************************************)
(* C5: the inclusion test of examine_child and _is_pure_vector accept the  *)
(* same nodes: exactly those with type VECTOR, at least one SOLID fill and *)
(* isMask not true; a node without a fills key is evaluated like one with  *)
(* an empty fill list and does not qualify.                                *)
(***************************************************************************)
C5_ClassifiersAgree ==
    pc = "classified" =>
        /\ probe_out[1].is_pure_vector = QualifyingVector(probe[1])
        /\ probe_out[1].examine_includes = QualifyingVector(probe[1])
        /\ probe[1].fills = <<>> =>
              /\ ~probe_out[1].is_pure_vector
              /\ ~probe_out[1].examine_includes

C5_Witness ==
    /\ pc = "classified"
    /\ probe[1].type = "VECTOR"
    /\ probe[1].fills = <<>>
    /\ probe[1].isMask = <<>>
    /\ probe_out[1] = [is_pure_vector |-> FALSE, examine_includes |-> FALSE]

(***************************************************************************)
(* Filenames and lookup keys across the stages.                            *)
(***************************************************************************)
\* URLReplacer._update_svg_downloads_section: safe_node_id
SafeNodeId(node_id) == StrReplace(node_id, ":", "_")

\* largest index of ch in s, 0 when absent (str.rfind, 1-based)
LastIndex(s, ch) ==
    LET hits == { k \in 1..Len(s) : s[k] = ch }
    IN  IF hits = {} THEN 0 ELSE CHOOSE k \in hits : \A h \in hits : h <= k

\* Path.name: the final path component
PathName(path) == SubSeq(path, LastIndex(path, "/") + 1, Len(path))

\* Path.stem: the final component without its last suffix
PathStem(path) ==
    LET name == PathName(path)
        dot == LastIndex(name, ".")
    IN  IF 1 < dot /\ dot < Len(name) THEN SubSeq(name, 1, dot - 1) ELSE name

\* DigitalOceanUploader.upload_file: the upload_info of one local file
UploadInfo(local_path) ==
    [filename |-> PathName(local_path),
     url |-> <<"url-of", PathName(local_path)>>,
     cdn_url |-> <<"cdn-url-of", PathName(local_path)>>]

\* str.endswith
EndsWith(s, suffix) ==
    Len(s) >= Len(suffix) /\ SubSeq(s, Len(s) - Len(suffix) + 1, Len(s)) = suffix

\* str.startswith
StartsWith(s, prefix) ==
    Len(s) >= Len(prefix) /\ SubSeq(s, 1, Len(prefix)) = prefix

\* URLReplacer.load_url_mapping over urls_data['files']
RECURSIVE LoadUrlMapping(_, _)
LoadUrlMapping(mapping, files) ==
    IF files = <<>> THEN mapping
    ELSE LET file_info == Head(files)
             file_ref == PathStem(file_info.filename)
         IN  LoadUrlMapping(
                 Put(mapping, file_ref,
                     [url |-> file_info.url, cdn_url |-> file_info.cdn_url,
                      filename |-> file_info.filename,
                      file_type |-> IF EndsWith(file_info.filename, DotSvg)
                                    THEN "svg" ELSE "bitmap"]),
                 Tail(files))

NativeIds == { NativeId(major, minor) : major \in 0..MaxNum, minor \in 0..MaxNum }

ProbeNames == { <<>>, <<"a", ":", "b">> }

InitFilename ==
    /\ Idle
    /\ pc = "probe"
    /\ probe \in { <<[id1 |-> a, id2 |-> b, name |-> n]>> :
                      a \in NativeIds, b \in NativeIds, n \in ProbeNames }
    /\ probe_out = None

\* Both stages derive the filename of the two nodes.
DeriveFilenames ==
    /\ pc = "probe"
    /\ pc' = "derived"
    /\ probe_out' = <<[preprocessor |-> <<GenerateFilename(probe[1].id1),
                                          GenerateFilename(probe[1].id2)>>,
                       extractor |-> <<SanitizeSvgFilename(probe[1].id1, probe[1].name),
                                       SanitizeSvgFilename(probe[1].id2, probe[1].name)>>,
                       url_mapping |-> EmptyDict]>>
    /\ UNCHANGED <<probe, preprocessor_vars>>

\* The extractor's files are written to svg_dir, uploaded, and the exported
\* URL list is loaded by the URLReplacer.
UploadAndLoad ==
    /\ pc = "derived"
    /\ pc' = "mapped"
    /\ LET written == { PathJoin(SvgDir, probe_out[1].extractor[k]) : k \in 1..2 }
           first == PathJoin(SvgDir, probe_out[1].extractor[1])
           files == IF Cardinality(written) = 1
                    THEN <<UploadInfo(first)>>
                    ELSE <<UploadInfo(first),
                           UploadInfo(PathJoin(SvgDir, probe_out[1].extractor[2]))>>
       IN  probe_out' = <<[probe_out[1] EXCEPT
                              !.url_mapping = LoadUrlMapping(EmptyDict, files)]>>
    /\ UNCHANGED <<probe, preprocessor_vars>>

NextFilename == DeriveFilenames \/ UploadAndLoad

SpecFilename == InitFilename /\ [][NextFilename]_vars

(***************************************************************************)
(* C9: derive_filename depends on the node id only: the result is the id   *)
(* with every ':' replaced by '_', followed by '.svg'; equal ids give      *)
(* equal filenames and two distinct native ids never share a filename.     *)
(***************************************************************************)
IsDerivedFrom(filename, node_id) ==
    /\ Len(filename) = Len(node_id) + 4
    /\ \A k \in 1..Len(node_id) :
          filename[k] = (IF node_id[k] = ":" THEN "_" ELSE node_id[k])
    /\ SubSeq(filename, Len(node_id) + 1, Len(filename)) = <<".", "s", "v", "g">>

C9_FilenameInjective ==
    pc \in {"derived", "mapped"} =>
        LET f1 == probe_out[1].preprocessor[1]
            f2 == probe_out[1].preprocessor[2]
        IN  /\ IsDerivedFrom(f1, probe[1].id1)
            /\ IsDerivedFrom(f2, probe[1].id2)
            /\ (probe[1].id1 = probe[1].id2) <=> (f1 = f2)

C9_Witness ==
    /\ pc = "derived"
    /\ probe[1].id1 = <<"1", ":", "1", "2">>
    /\ probe[1].id2 = <<"1", "1", ":", "2">>
    /\ probe_out[1].preprocessor[1] = <<"1", "_", "1", "2", ".", "s", "v", "g">>
    /\ probe_out[1].preprocessor[2] = <<"1", "1", "_", "2", ".", "s", "v", "g">>

(***************************************************************************)
(* C10: for every node id the preprocessor's filename equals the           *)
(* extractor's, whatever name is passed, and the key the URLReplacer       *)
(* derives from the id alone is the key under which load_url_mapping       *)
(* stored that node's uploaded file.                                       *)
(***************************************************************************)
C10_StagesAgreeOnFilename ==
    pc = "mapped" =>
        LET out == probe_out[1]
            ids == <<probe[1].id1, probe[1].id2>>
        IN  \A k \in 1..2 :
              /\ out.extractor[k] = out.preprocessor[k]
              /\ SafeNodeId(ids[k]) \in DOMAIN out.url_mapping
              /\ out.url_mapping[SafeNodeId(ids[k])].filename = out.preprocessor[k]
              /\ PathStem(out.preprocessor[k]) = SafeNodeId(ids[k])

C10_Witness ==
    /\ pc = "mapped"
    /\ probe[1].name # <<>>
    /\ probe[1].id1 # probe[1].id2
    /\ Cardinality(DOMAIN probe_out[1].url_mapping) = 2
    /\ SafeNodeId(probe[1].id1) \in DOMAIN probe_out[1].url_mapping

(***************************************************************************)
(* C11: in the content inspection of a GROUP a RECTANGLE or ELLIPSE whose  *)
(* isMask flag is true is recorded with reason MASK: MASK is among the     *)
(* reasons of the inspection, and SHAPE is among them only if some         *)
(* inspected RECTANGLE or ELLIPSE is not a mask.                           *)
(***************************************************************************)
\* The GROUP whose inspection group_analysis holds: the last one decomposed.
LastDecomposed == CHOOSE g \in decomposed : \A h \in decomposed : h <= g

\* The nodes the inspection of GROUP g visits.
Inspected(d, g) ==
    { i \in Nodes(d) : g \in Ancestors(d, i) /\ RelDepth(d, g, i) <= DepthCap }

C11_MaskBeforeShape ==
    (pc \in {"analyzing", "done"} /\ group_analysis # None) =>
        LET shapes == { i \in Inspected(raw_before, LastDecomposed) :
                          NodeType(raw_before, i) \in {"RECTANGLE", "ELLIPSE"} }
            masks == { i \in shapes : raw_before.kind[i].isMask = <<TRUE>> }
            reasons == group_analysis[1].filtered_content
        IN  /\ masks # {} => "MASK" \in reasons
            /\ shapes \subseteq masks => "SHAPE" \notin reasons

(***************************************************************************)
(* C12: the outer traversal never calls analyze_node on a descendant of a  *)
(* GROUP; each GROUP it reaches is decomposed once (groups_analyzed equals *)
(* the number of GROUPs without a GROUP ancestor); no descendant of a      *)
(* GROUP is counted in total_nodes_scanned or holds a standalone record;   *)
(* every group-child record names one parent, the GROUP the traversal      *)
(* reached above the node, and vector_children_found counts each once.     *)
(***************************************************************************)
OutsideGroups(d) == { i \in Nodes(d) : ~InGroup(d, i) }

ReachedGroups(d) == { i \in OutsideGroups(d) : NodeType(d, i) = "GROUP" }

NodeOfId(d, node_id) == CHOOSE i \in Nodes(d) : d.id[i] = node_id

C12_GroupsDecomposedOnceNeverEntered ==
    /\ pc = "analyzing" =>
          /\ \A k \in 1..Len(stack) : ~InGroup(raw_before, stack[k].node)
          /\ decomposed \subseteq ReachedGroups(raw_before)
          /\ stats.groups_analyzed = Cardinality(decomposed)
          /\ stats.total_nodes_scanned <= Cardinality(OutsideGroups(raw_before))
    /\ pc \in {"analyzing", "done"} =>
          /\ \A node_id \in StandaloneIds :
                ~InGroup(raw_before, NodeOfId(raw_before, node_id))
          /\ \A node_id \in GroupChildIds :
                LET i == NodeOfId(raw_before, node_id) IN
                /\ InGroup(raw_before, i)
                /\ individual_vector_children[node_id].parent_group_id =
                       raw_before.id[OutermostGroup(raw_before, i)]
          /\ stats.vector_children_found = Cardinality(GroupChildIds)
    /\ Done =>
          /\ decomposed = ReachedGroups(raw_before)
          /\ stats.groups_analyzed = Cardinality(ReachedGroups(raw_before))
          /\ raw_before.hasDocument =>
                stats.total_nodes_scanned = Cardinality(OutsideGroups(raw_before))

\* A finished run on GROUP > GROUP > VECTOR: one GROUP decomposed, one node
\* scanned, the VECTOR attributed to the GROUP the traversal reached.
C12_Witness ==
    /\ Done
    /\ Len(raw_before.parent) = 3
    /\ raw_before.parent = <<0, 1, 2>>
    /\ NodeType(raw_before, 1) = "GROUP" /\ NodeType(raw_before, 2) = "GROUP"
    /\ decomposed = {1}
    /\ stats.total_nodes_scanned = 1
    /\ GroupChildIds = {raw_before.id[3]}

ConsumedIds(d) ==
    UNION { { AnalyzeGroupContent(d, g).vector_children[k].id :
                k \in 1..Len(AnalyzeGroupContent(d, g).vector_children) } :
            g \in ReachedGroups(d) }

FindVectorsCap == 10

C14_FoundDownToTenLevels ==
    Done =>
        \A i \in Nodes(raw_before) :
            ( /\ InGroup(raw_before, i)
              /\ QualifyingVector(raw_before.kind[i])
              /\ RelDepth(raw_before, OutermostGroup(raw_before, i), i) <= FindVectorsCap )
            => raw_before.id[i] \in DOMAIN Downloads

(***************************************************************************)
(* A whole run of a fresh JSONPreprocessor, as one value: the traversal    *)
(* carried to its end from the state __init__ and _reset_stats leave.      *)
(***************************************************************************)
RECURSIVE RunAnalysis(_, _)
RunAnalysis(d, a) ==
    IF a.stack = <<>> THEN a ELSE RunAnalysis(d, AnalyzeStep(d, a))

FreshRun(d) ==
    LET reset == ResetStats(ZeroStats, EmptyDict, EmptyDict)
        a == RunAnalysis(d, Analysis(PagesOf(d), reset.stats,
                                     reset.individual_vector_children,
                                     reset.standalone_vectors, None, {}))
        out == Finish(d, a.stats, a.individual_vector_children, a.standalone_vectors)
    IN  [stats |-> out.stats,
         individual_vector_children |-> a.individual_vector_children,
         standalone_vectors |-> a.standalone_vectors,
         optimized_data |-> out.optimized_data]

\* The nodes below a GROUP that lie deeper than the inspection reaches.
BeyondCap(d) ==
    { i \in Nodes(d) :
        InGroup(d, i) /\ RelDepth(d, OutermostGroup(d, i), i) > DepthCap }

\* The document with the nodes beyond the cap absent; the others keep their
\* ids, names, kinds and order.
Truncate(d) ==
    LET kept == SelectSeq([j \in 1..Len(d.parent) |-> j],
                          LAMBDA j : j \notin BeyondCap(d))
        NewIndex(j) == IF j = 0 THEN 0 ELSE CHOOSE k \in 1..Len(kept) : kept[k] = j
    IN  [hasDocument |-> d.hasDocument,
         parent |-> [k \in 1..Len(kept) |-> NewIndex(d.parent[kept[k]])],
         kind |-> [k \in 1..Len(kept) |-> d.kind[kept[k]]],
         name |-> [k \in 1..Len(kept) |-> d.name[kept[k]]],
         id |-> [k \in 1..Len(kept) |-> d.id[kept[k]]]]

(***************************************************************************)
(* C15: a run on a document with a GROUP subtree deeper than the cap       *)
(* completes; no node beyond the cap has a record; and the counters, the   *)
(* two record sets, _svgDownloads and _svgMapping are those of a run on    *)
(* the same document with the nodes beyond the cap absent.                 *)
(***************************************************************************)
C15_BeyondCapAsIfAbsent ==
    /\ (pc = "analyzing" /\ stack = <<>>) => ENABLED GenerateJson
    /\ Done =>
          LET absent == FreshRun(Truncate(raw_before)) IN
          /\ \A i \in BeyondCap(raw_before) :
                raw_before.id[i] \notin DOMAIN Downloads
          /\ stats = absent.stats
          /\ individual_vector_children = absent.individual_vector_children
          /\ standalone_vectors = absent.standalone_vectors
          /\ Downloads = absent.optimized_data.svgDownloads
          /\ optimized_data[1].svgMapping = absent.optimized_data.svgMapping

\* A finished run on a GROUP whose subtree holds a qualifying VECTOR beyond
\* the cap and content within it.
C15_Witness ==
    /\ Done
    /\ \E i \in BeyondCap(raw_before) : QualifyingVector(raw_before.kind[i])
    /\ Len(Truncate(raw_before).parent) = DepthCap + 2
    /\ stats.groups_analyzed = 1
    /\ stats.empty_groups_skipped = 1
    /\ Downloads = EmptyDict

(***************************************************************************)
(* C16: preprocess_figma_json leaves its input as it was handed over: the  *)
(* input has no _svgDownloads, _svgMapping or _metadata key after the run, *)
(* and these sections are in the returned dict, whose other content equals *)
(* the input's.                                                            *)
(***************************************************************************)
DerivedKeys == {"svgDownloads", "svgMapping", "metadata"}

C16_InputNotMutated ==
    /\ pc \in {"analyzing", "done"} => doc = raw_before
    /\ Done =>
          /\ DOMAIN doc \cap DerivedKeys = {}
          /\ DerivedKeys \subseteq DOMAIN optimized_data[1]
          /\ \A key \in DOMAIN raw_before : optimized_data[1][key] = raw_before[key]

C16_Witness ==
    /\ Done
    /\ Cardinality(DOMAIN Downloads) = 2
    /\ optimized_data[1].metadata.preprocessing_applied
    /\ doc = raw_before
    /\ doc # optimized_data[1]

(***************************************************************************)
(* C17: a run of an instance that has run before, on the same or on other  *)
(* inputs, ends with the records, _svgDownloads, _svgMapping and           *)
(* statistics a fresh instance produces on the same input.                 *)
(***************************************************************************)
C17_RerunEqualsFreshRun ==
    Done =>
        LET fresh == FreshRun(raw_before) IN
        /\ stats = fresh.stats
        /\ individual_vector_children = fresh.individual_vector_children
        /\ standalone_vectors = fresh.standalone_vectors
        /\ optimized_data[1] = fresh.optimized_data

\* The second of two runs, the first on a GROUP holding the VECTOR 1:2, the
\* second on a page holding a standalone VECTOR with the same id.
C17_Witness ==
    /\ Done
    /\ other_input_before
    /\ NodeType(raw_before, 1) = "CANVAS"
    /\ StandaloneIds = {raw_before.id[2]}
    /\ GroupChildIds = {}
    /\ stats.individual_vectors_found = 1

(***************************************************************************)
(* Image references.  A file is its document root "0:0" and below it the   *)
(* nodes 1..n; a node carries up to three optional paint lists: fills,     *)
(* backgrounds and the legacy background.  A paint is its type and its     *)
(* optional imageRef.                                                      *)
(***************************************************************************)
Paint(type, imageRef) == [type |-> type, imageRef |-> imageRef]

PaintLists(fills, backgrounds, background) ==
    [fills |-> fills, backgrounds |-> backgrounds, background |-> background]

ImagePalette ==
    { PaintLists(<<>>, <<>>, <<>>),
      PaintLists(<<<<Paint("SOLID", <<>>)>>>>, <<>>, <<>>),
      PaintLists(<<<<Paint("IMAGE", <<"refA">>)>>>>, <<>>, <<>>),
      PaintLists(<<<<Paint("SOLID", <<>>), Paint("IMAGE", <<"refA">>),
                     Paint("IMAGE", <<"refB">>)>>>>, <<>>, <<>>),
      PaintLists(<<<<>>>>, <<<<Paint("IMAGE", <<"refB">>)>>>>, <<>>),
      PaintLists(<<>>, <<>>, <<<<Paint("IMAGE", <<"refC">>)>>>>),
      PaintLists(<<<<Paint("IMAGE", <<"refA">>)>>>>, <<>>,
                 <<<<Paint("IMAGE", <<"refA">>)>>>>),
      PaintLists(<<<<Paint("IMAGE", <<>>)>>>>, <<<<Paint("SOLID", <<>>)>>>>, <<>>) }

ImageFile(p, k) ==
    [parent |-> p, paints |-> k, id |-> [i \in 1..Len(p) |-> NativeId(1, i)]]

RootId == NativeId(0, 0)

NoFindings == [image_refs |-> {}, image_nodes |-> {}]

RECURSIVE CheckPaints_AnyType(_, _, _)
CheckPaints_AnyType(paints, current_node_id, found) ==
    IF paints = <<>> THEN found
    ELSE LET fill == Head(paints)
             next == [image_refs |->
                          found.image_refs \cup
                          (IF fill.type = "IMAGE" /\ fill.imageRef # <<>>
                           THEN {fill.imageRef[1]} ELSE {}),
                      image_nodes |->
                          found.image_nodes \cup
                          (IF current_node_id # None
                           THEN {current_node_id[1]} ELSE {})]
         IN  CheckPaints_AnyType(Tail(paints), current_node_id, next)

\* for fill in obj['fills'] (and the same loop over obj['backgrounds']) of
\* FigmaExtractor.find_image_references_and_nodes
RECURSIVE CheckPaints(_, _, _)
CheckPaints(paints, current_node_id, found) ==
    IF paints = <<>> THEN found
    ELSE LET fill == Head(paints)
             next == IF fill.type = "IMAGE" /\ fill.imageRef # <<>>
                     THEN [image_refs |-> found.image_refs \cup {fill.imageRef[1]},
                           image_nodes |->
                               found.image_nodes \cup
                               (IF current_node_id # None
                                THEN {current_node_id[1]} ELSE {})]
                     ELSE found
         IN  CheckPaints(Tail(paints), current_node_id, next)

\* traverse(obj, current_node_id) on the dict of node i.  The loop over
\* obj.values() reaches the paints of every list, the legacy background
\* included, but a paint dict has no 'fills' or 'backgrounds' key of its
\* own, so only the node dicts of 'children' add anything.
RECURSIVE Traverse(_, _, _, _)
RECURSIVE TraverseItems(_, _, _, _)
Traverse(f, i, current_node_id, found) ==
    LET obj == f.paints[i]
        node_id == IF ":" \in Range(f.id[i]) THEN <<f.id[i]>> ELSE current_node_id
        fills == CheckPaints(Get(obj.fills, <<>>), node_id, found)
        backgrounds == CheckPaints(Get(obj.backgrounds, <<>>), node_id, fills)
    IN  TraverseItems(f, Children(f, i), node_id, backgrounds)

\* traverse on a list of node dicts
TraverseItems(f, items, current_node_id, found) ==
    IF items = <<>> THEN found
    ELSE TraverseItems(f, Tail(items), current_node_id,
                       Traverse(f, Head(items), current_node_id, found))

\* FigmaExtractor.find_image_references_and_nodes: traverse(data) passes the
\* file dict (no id) and then the document root, whose id holds a colon.
FindImageReferencesAndNodes(f) ==
    TraverseItems(f, Children(f, 0), <<RootId>>, NoFindings)

\* One of the three loops of traverse_node: IMAGE paints with a truthy imageRef.
ImageRefsOf(paints) ==
    { paints[k].imageRef[1] :
        k \in { j \in 1..Len(paints) :
                  paints[j].type = "IMAGE" /\ paints[j].imageRef # <<>> } }

\* traverse_node of EnhancedFigmaExtractor._extract_image_references
RECURSIVE TraverseNode(_, _, _)
RECURSIVE TraverseChildren(_, _, _)
TraverseNode(f, i, image_refs) ==
    LET node == f.paints[i]
    IN  TraverseChildren(f, Children(f, i),
            image_refs \cup ImageRefsOf(Get(node.fills, <<>>))
                       \cup ImageRefsOf(Get(node.backgrounds, <<>>))
                       \cup ImageRefsOf(Get(node.background, <<>>)))

TraverseChildren(f, cs, image_refs) ==
    IF cs = <<>> THEN image_refs
    ELSE TraverseChildren(f, Tail(cs), TraverseNode(f, Head(cs), image_refs))

\* EnhancedFigmaExtractor._extract_image_references, from the document root
ExtractImageReferences(f) == TraverseChildren(f, Children(f, 0), {})

InitImages ==
    /\ Idle
    /\ pc = "probe"
    /\ \E n \in 0..MaxNodes : \E p \in Shapes(n) : \E k \in [1..n -> ImagePalette] :
           probe = <<ImageFile(p, k)>>
    /\ probe_out = None

CallFindImageReferencesAndNodes ==
    /\ pc = "probe"
    /\ probe_out = None
    /\ probe_out' = <<[figma |-> FindImageReferencesAndNodes(probe[1]),
                       enhanced |-> None]>>
    /\ pc' = "found"
    /\ UNCHANGED <<probe, preprocessor_vars>>

CallExtractImageReferences ==
    /\ pc = "found"
    /\ probe_out' = <<[probe_out[1] EXCEPT
                          !.enhanced = <<ExtractImageReferences(probe[1])>>]>>
    /\ pc' = "extracted"
    /\ UNCHANGED <<probe, preprocessor_vars>>

NextImages == CallFindImageReferencesAndNodes \/ CallExtractImageReferences

SpecImages == InitImages /\ [][NextImages]_vars

\* The imageRef values of the IMAGE paints in the lists of node i named by
\* legacy: fills and backgrounds, and the legacy background if asked.
NodeImageRefs(f, i, legacy) ==
    LET node == f.paints[i]
        lists == <<Get(node.fills, <<>>), Get(node.backgrounds, <<>>),
                   IF legacy THEN Get(node.background, <<>>) ELSE <<>>>>
    IN  { ref \in {"refA", "refB", "refC"} :
            \E l \in 1..3 : \E k \in 1..Len(lists[l]) :
                lists[l][k] = Paint("IMAGE", <<ref>>) }

(***************************************************************************)
(* C18: each of the two image-reference extractions returns exactly the    *)
(* imageRef values of the IMAGE paints in the fills, backgrounds and       *)
(* legacy background lists of the document's nodes.                        *)
(***************************************************************************)
C18_ExactImageRefs ==
    LET all == UNION { NodeImageRefs(probe[1], i, TRUE) : i \in Nodes(probe[1]) } IN
    /\ pc \in {"found", "extracted"} => probe_out[1].figma.image_refs = all
    /\ pc = "extracted" => probe_out[1].enhanced[1] = all

(***************************************************************************)
(* C19: the node ids returned with the references are exactly the ids of   *)
(* the nodes that carry an IMAGE paint with an imageRef in their own fills *)
(* or backgrounds.                                                         *)
(***************************************************************************)
C19_ExactImageNodes ==
    pc \in {"found", "extracted"} =>
        probe_out[1].figma.image_nodes =
            { probe[1].id[i] : i \in { j \in Nodes(probe[1]) :
                                         NodeImageRefs(probe[1], j, FALSE) # {} } }

\* Three nodes, one returned: the image node has a child without paints,
\* and another node has SOLID or reference-less paints only.
C19_Witness ==
    /\ pc = "found"
    /\ Len(probe[1].parent) = 3
    /\ Cardinality(probe_out[1].figma.image_nodes) = 1
    /\ \E i \in Nodes(probe[1]) :
          /\ probe[1].id[i] \in probe_out[1].figma.image_nodes
          /\ \E j \in Nodes(probe[1]) :
                probe[1].parent[j] = i /\ probe[1].paints[j].fills = <<>>
    /\ \E i \in Nodes(probe[1]) :
          /\ probe[1].paints[i].fills # <<>>
          /\ probe[1].paints[i].fills[1] # <<>>
          /\ probe[1].id[i] \notin probe_out[1].figma.image_nodes

(***************************************************************************)
(* C20: every record of the _svgDownloads section, as preprocessing        *)
(* produced it and as it stands in the final JSON after the download       *)
(* stage, has the keys filename, component_name, type and                  *)
(* parent_group_name.                                                      *)
(***************************************************************************)
C20_RecordsCarryRequiredKeys ==
    pc \in {"done", "persisted"} =>
        \A node_id \in DOMAIN optimized_data[1].svgDownloads :
            {"filename", "component_name", "type", "parent_group_name"}
                \subseteq DOMAIN optimized_data[1].svgDownloads[node_id]

(***************************************************************************)
(* C21: in the dict preprocessing returns and in the file_data main holds  *)
(* after the download stage, _svgMapping has one entry per _svgDownloads   *)
(* record, its key the record's node id with ':' replaced by '_', its      *)
(* filename and component_name those of the record.                        *)
(***************************************************************************)
C21_MappingMirrorsDownloads ==
    pc \in {"done", "persisted"} =>
        LET downloads == optimized_data[1].svgDownloads
            mapping == optimized_data[1].svgMapping
        IN  /\ DOMAIN mapping = { StrReplace(downloads[n].node_id, ":", "_") :
                                    n \in DOMAIN downloads }
            /\ Cardinality(DOMAIN mapping) = Cardinality(DOMAIN downloads)
            /\ \A n \in DOMAIN downloads :
                  /\ downloads[n].node_id = n
                  /\ mapping[StrReplace(n, ":", "_")].filename = downloads[n].filename
                  /\ mapping[StrReplace(n, ":", "_")].component_name =
                         downloads[n].component_name

\* The final JSON after two of three planned vectors were downloaded.
C21_Witness ==
    /\ pc = "persisted"
    /\ Cardinality(DOMAIN Downloads) = 2
    /\ Cardinality(GroupChildIds \cup StandaloneIds) = 3
    /\ Cardinality(DOMAIN optimized_data[1].svgMapping) = 2
    /\ \A key \in DOMAIN optimized_data[1].svgMapping :
          optimized_data[1].svgMapping[key].is_individual

(***************************************************************************)
(* C30: after a run total_vector_exports equals vector_children_found      *)
(* plus individual_vectors_found and the number of _svgDownloads records,  *)
(* and groups_analyzed equals empty_groups_skipped plus the number of      *)
(* GROUPs named as parent_group_id by at least one record.                 *)
(***************************************************************************)
C30_CountersAddUp ==
    Done =>
        LET parents == { Downloads[n].parent_group_id :
                           n \in { m \in DOMAIN Downloads :
                                     "parent_group_id" \in DOMAIN Downloads[m] } }
        IN  /\ stats.total_vector_exports =
                   stats.vector_children_found + stats.individual_vectors_found
            /\ stats.total_vector_exports = Cardinality(DOMAIN Downloads)
            /\ stats.groups_analyzed =
                   stats.empty_groups_skipped + Cardinality(parents)
            /\ optimized_data[1].metadata.preprocessing.statistics = stats

\* Two GROUPs analyzed, one of them empty, the other named by one record.
C30_Witness ==
    /\ Done
    /\ stats.groups_analyzed = 2
    /\ stats.empty_groups_skipped = 1
    /\ stats.vector_children_found = 1
    /\ stats.total_vector_exports = 1
    /\ Cardinality(DOMAIN Downloads) = 1

(***************************************************************************)
(* C25: after SVG extraction on a preprocessed document every node id      *)
(* handed to the SVG export endpoint is the id of a node that passes the   *)
(* strict classifier, whatever preprocessing found, nothing included.      *)
(***************************************************************************)
C25_OnlyStrictVectorsExported ==
    pc = "persisted" =>
        \A b \in 1..Len(svg_export_calls) :
            \A k \in 1..Len(svg_export_calls[b]) :
                QualifyingVector(raw_before.kind[NodeOfId(raw_before, svg_export_calls[b][k])])

(***************************************************************************)
(* The batch loop of download_svg_icons_from_preprocessed, one iteration   *)
(* per step, on a _svgDownloads section of n records.  What the export     *)
(* endpoint, the download and the file system do to a batch is drawn from  *)
(* a few patterns.                                                         *)
(***************************************************************************)
MaxPlanned == 21

\* The record preprocessing writes for a group child with this id.
ProbeSvgInfo(node_id) ==
    [node_id |-> node_id, type |-> "VECTOR", is_group |-> FALSE,
     component_name |-> "Vector", path |-> <<"Group", "Vector">>,
     filename |-> GenerateFilename(node_id),
     extraction_reason |-> "VECTOR_CHILD_FROM_GROUP",
     parent_group_id |-> NativeId(0, 1), parent_group_name |-> "Group"]

BatchPatterns ==
    {"export_failed", "all_saved", "first_without_url", "last_without_content",
     "first_not_written_last_without_content"}

\* What happens to the k-th vector of a batch of len vectors.
VectorOutcome(pattern, k, len) ==
    IF pattern = "export_failed" THEN "batch_not_exported"
    ELSE IF pattern = "first_without_url" /\ k = 1 THEN "no_url"
    ELSE IF pattern = "last_without_content" /\ k = len THEN "no_content"
    ELSE IF pattern = "first_not_written_last_without_content" /\ k = 1
         THEN "not_written"
    ELSE IF pattern = "first_not_written_last_without_content" /\ k = len
         THEN "no_content"
    ELSE "saved"

AfterFailedExport_Break(i, n) == n

\* `continue` after "Failed to export this SVG batch": the next offset
AfterFailedExport(i, n) == i + BatchSize

InitDownload ==
    /\ Idle
    /\ pc = "batching"
    /\ \E n \in 1..MaxPlanned :
           probe = <<[individual_vectors |->
                         [k \in 1..n |-> PlannedVector(NativeId(1, k),
                                                       ProbeSvgInfo(NativeId(1, k)))]]>>
    /\ probe_out = <<[i |-> 0, calls |-> <<>>, outcome |-> EmptyDict,
                      downloaded_svgs |-> EmptyDict]>>

\* One iteration of `for i in range(0, len(individual_vectors), batch_size)`
ProcessBatch ==
    /\ pc = "batching"
    /\ probe_out[1].i < Len(probe[1].individual_vectors)
    /\ \E pattern \in BatchPatterns :
          LET loop == probe_out[1]
              batch == Batch(probe[1].individual_vectors, loop.i)
              node_ids == [k \in 1..Len(batch) |-> batch[k].id]
              svg_urls_ok == pattern # "export_failed"
              Outcome(node_id) ==
                  VectorOutcome(pattern,
                                CHOOSE k \in 1..Len(batch) : batch[k].id = node_id,
                                Len(batch))
              saved == { batch[k] : k \in { j \in 1..Len(batch) :
                                              Outcome(batch[j].id) = "saved" } }
          IN  probe_out' =
                <<[i |-> IF svg_urls_ok THEN loop.i + BatchSize
                         ELSE AfterFailedExport(loop.i, Len(probe[1].individual_vectors)),
                   calls |-> Append(loop.calls, node_ids),
                   outcome |->
                       [node_id \in DOMAIN loop.outcome \cup Range(node_ids) |->
                           IF node_id \in Range(node_ids) THEN Outcome(node_id)
                           ELSE loop.outcome[node_id]],
                   downloaded_svgs |->
                       [node_id \in DOMAIN loop.downloaded_svgs \cup
                                    { vector.id : vector \in saved } |->
                           IF node_id \in DOMAIN loop.downloaded_svgs
                           THEN loop.downloaded_svgs[node_id]
                           ELSE DownloadedSvg(CHOOSE vector \in saved :
                                                  vector.id = node_id)]]>>
    /\ UNCHANGED <<pc, probe, preprocessor_vars>>

\* The loop has ended: return downloaded_svgs
ReturnDownloaded ==
    /\ pc = "batching"
    /\ probe_out[1].i >= Len(probe[1].individual_vectors)
    /\ pc' = "downloaded"
    /\ UNCHANGED <<probe, probe_out, preprocessor_vars>>

NextDownload == ProcessBatch \/ ReturnDownloaded

SpecDownload == InitDownload /\ [][NextDownload]_vars

RECURSIVE Flatten(_)
Flatten(lists) == IF lists = <<>> THEN <<>> ELSE Head(lists) \o Flatten(Tail(lists))

PlannedNodeIds ==
    [k \in 1..Len(probe[1].individual_vectors) |-> probe[1].individual_vectors[k].id]

(***************************************************************************)
(* C22: the export calls made so far carry, in order and without gap or    *)
(* repetition, the first planned node ids; every call carries between 1    *)
(* and 10 ids and every call but the last exactly 10; when the loop has    *)
(* ended the calls together carry every planned id exactly once.           *)
(***************************************************************************)
C22_BatchesPartitionPlan ==
    pc \in {"batching", "downloaded"} =>
        LET calls == probe_out[1].calls
            sent == Flatten(calls)
        IN  /\ Len(sent) <= Len(PlannedNodeIds)
            /\ sent = SubSeq(PlannedNodeIds, 1, Len(sent))
            /\ \A b \in 1..Len(calls) :
                  /\ Len(calls[b]) \in 1..10
                  /\ b < Len(calls) => Len(calls[b]) = 10
            /\ pc = "downloaded" => sent = PlannedNodeIds

\* 21 planned vectors went out as batches of 10, 10 and 1.
C22_Witness ==
    /\ pc = "downloaded"
    /\ Len(PlannedNodeIds) = 21
    /\ Len(probe_out[1].calls) = 3
    /\ Len(probe_out[1].calls[3]) = 1

(***************************************************************************)
(* C27: a batch whose export failed does not end the loop: every batch of  *)
(* the plan is processed, what earlier batches saved is kept, and the      *)
(* returned map holds exactly the planned vectors whose URL was resolved,  *)
(* whose content was fetched and whose file was written.                   *)
(***************************************************************************)
C27_FailedBatchSkippedOnly ==
    pc \in {"batching", "downloaded"} =>
        LET loop == probe_out[1]
            n == Len(PlannedNodeIds)
        IN  /\ DOMAIN loop.downloaded_svgs =
                   { node_id \in DOMAIN loop.outcome : loop.outcome[node_id] = "saved" }
            /\ \A node_id \in DOMAIN loop.downloaded_svgs :
                  loop.downloaded_svgs[node_id].node_id = node_id
            /\ pc = "downloaded" =>
                  /\ DOMAIN loop.outcome = Range(PlannedNodeIds)
                  /\ Len(loop.calls) = (n + BatchSize - 1) \div BatchSize

\* The first batch failed to export, the second was saved in full.
C27_Witness ==
    /\ pc = "downloaded"
    /\ Len(PlannedNodeIds) = 20
    /\ probe_out[1].outcome[PlannedNodeIds[1]] = "batch_not_exported"
    /\ DOMAIN probe_out[1].downloaded_svgs = { PlannedNodeIds[k] : k \in 11..20 }

(***************************************************************************)
(* FigmaExtractor.export_svg_batch, one HTTP attempt per step.  The        *)
(* service answers an attempt with a request failure (connection error,    *)
(* timeout or error status), with a body carrying 'err', or with a body    *)
(* whose 'images' maps some of the requested ids to URLs.                  *)
(***************************************************************************)
MaxRetries == 3

\* The bodies of a successful response to a request for node_ids: no
\* 'images' key, or a URL for the ids of some subset and null for the rest.
ImagesBodies(node_ids) ==
    {<<>>} \cup
    { <<[node_id \in Range(node_ids) |->
            IF node_id \in resolved THEN <<"svg-url-of", node_id>> ELSE None]>> :
        resolved \in SUBSET Range(node_ids) }

OnRequestException_CountEveryFailure(attempt, max_retries, errors) ==
    [returns |-> ~(attempt < max_retries - 1), errors |-> errors + 1]

\* except requests.RequestException: back off and retry, or give up
OnRequestException(attempt, max_retries, errors) ==
    IF attempt < max_retries - 1
    THEN [returns |-> FALSE, errors |-> errors]
    ELSE [returns |-> TRUE, errors |-> errors + 1]

InitExport ==
    /\ Idle
    /\ pc = "exporting"
    /\ \E n \in 1..2 : \E max_retries \in 1..MaxRetries : \E errors \in 0..1 :
           probe = <<[node_ids |-> [k \in 1..n |-> NativeId(1, k)],
                      max_retries |-> max_retries,
                      errors |-> errors, api_calls |-> 0]>>
    /\ probe_out = <<[attempt |-> 0, responses |-> <<>>, returned |-> None,
                      errors |-> probe[1].errors, api_calls |-> probe[1].api_calls]>>

\* One iteration of `for attempt in range(max_retries)`
HttpAttempt ==
    /\ pc = "exporting"
    /\ probe_out[1].attempt < probe[1].max_retries
    /\ LET call == probe_out[1] IN
       \/ \* session.get or raise_for_status raised
          LET handled == OnRequestException(call.attempt, probe[1].max_retries,
                                            call.errors)
          IN  /\ probe_out' = <<[call EXCEPT
                                   !.attempt = @ + 1,
                                   !.responses = Append(@, "request_exception"),
                                   !.errors = handled.errors]>>
              /\ pc' = IF handled.returns THEN "returned" ELSE "exporting"
       \/ \* data.get('err')
          /\ probe_out' = <<[call EXCEPT
                               !.attempt = @ + 1,
                               !.responses = Append(@, "api_err")]>>
          /\ pc' = "returned"
       \/ \* return data.get('images', {})
          \E body \in ImagesBodies(probe[1].node_ids) :
             /\ probe_out' = <<[call EXCEPT
                                  !.attempt = @ + 1,
                                  !.responses = Append(@, "images"),
                                  !.api_calls = @ + 1,
                                  !.returned = <<Get(body, EmptyDict)>>]>>
             /\ pc' = "returned"
    /\ UNCHANGED <<probe, preprocessor_vars>>

NextExport == HttpAttempt

SpecExport == InitExport /\ [][NextExport]_vars

(***************************************************************************)
(* C28: export_svg_batch makes at most max_retries HTTP attempts; it       *)
(* returns the images map at the first successful response, None at the    *)
(* first response with an API err without another attempt, and None after  *)
(* max_retries request failures in a row; the errors counter rises by one  *)
(* in the last case and not at all in the others.                          *)
(***************************************************************************)
C28_ExportBatchBoundedRetries ==
    pc \in {"exporting", "returned"} =>
        LET call == probe_out[1]
            tries == Len(call.responses)
            Failed(k) == call.responses[k] = "request_exception"
        IN  /\ tries <= probe[1].max_retries
            /\ \A k \in 1..(tries - 1) : Failed(k)
            /\ pc = "exporting" =>
                  /\ tries < probe[1].max_retries
                  /\ \A k \in 1..tries : Failed(k)
                  /\ call.errors = probe[1].errors
            /\ pc = "returned" =>
                  /\ tries >= 1
                  /\ call.responses[tries] = "images" =>
                        /\ call.returned # None
                        /\ call.returned[1] \in
                               { Get(body, EmptyDict) : body \in ImagesBodies(probe[1].node_ids) }
                        /\ call.errors = probe[1].errors
                        /\ call.api_calls = probe[1].api_calls + 1
                  /\ call.responses[tries] = "api_err" =>
                        /\ call.returned = None
                        /\ call.errors = probe[1].errors
                  /\ Failed(tries) =>
                        /\ tries = probe[1].max_retries
                        /\ call.returned = None
                        /\ call.errors = probe[1].errors + 1

\* Three request failures in a row: None, one error counted.
C28_Witness ==
    /\ pc = "returned"
    /\ probe[1].max_retries = 3
    /\ probe_out[1].responses = <<"request_exception", "request_exception",
                                  "request_exception">>
    /\ probe_out[1].returned = None
    /\ probe_out[1].errors = probe[1].errors + 1

(***************************************************************************)
(* URL replacement in the _svgDownloads section: two downloaded vectors,   *)
(* of which any may have failed to upload, the URL list of the uploaded    *)
(* files loaded by load_url_mapping, then _update_svg_downloads_section.   *)
(***************************************************************************)
ReplaceIds == { NativeId(1, minor) : minor \in 0..MaxNum }

\* svg_data[key] = value for every key of updates
SetKeys(svg_data, updates) ==
    [key \in DOMAIN svg_data \cup DOMAIN updates |->
        IF key \in DOMAIN updates THEN updates[key] ELSE svg_data[key]]

\* The four URL fields and the mark written from one url_mapping entry
UrlFields(mapping, url_key) ==
    [uploaded_url |-> mapping[url_key],
     uploaded_cdn_url |-> mapping.cdn_url,
     uploaded_regular_url |-> mapping.url,
     url_replaced |-> TRUE]

UpdateSvgData_ExactKeyOnly(url_mapping, node_id, svg_data, url_key) ==
    LET safe_node_id == StrReplace(node_id, ":", "_")
    IN  IF safe_node_id \in DOMAIN url_mapping
        THEN SetKeys(svg_data, UrlFields(url_mapping[safe_node_id], url_key))
        ELSE svg_data

\* The body of the loop of _update_svg_downloads_section for one entry; a
\* url_mapping of at most two keys leaves at most one key for the partial
\* match to find.
UpdateSvgData(url_mapping, node_id, svg_data, url_key) ==
    LET safe_node_id == StrReplace(node_id, ":", "_")
        alternatives == { mapping_key \in DOMAIN url_mapping :
                            /\ StartsWith(mapping_key, safe_node_id)
                            /\ url_mapping[mapping_key].file_type = "svg" }
    IN  IF safe_node_id \in DOMAIN url_mapping
        THEN SetKeys(svg_data, UrlFields(url_mapping[safe_node_id], url_key))
        ELSE IF alternatives # {}
        THEN SetKeys(svg_data,
                     UrlFields(url_mapping[CHOOSE mapping_key \in alternatives : TRUE],
                               url_key))
        ELSE svg_data

InitReplace ==
    /\ Idle
    /\ pc = "uploaded"
    /\ \E id1 \in ReplaceIds : \E id2 \in ReplaceIds \ {id1} :
       \E uploaded \in SUBSET {id1, id2} : \E use_cdn \in BOOLEAN :
           probe = <<[svg_downloads |->
                         [node_id \in {id1, id2} |->
                             DownloadedSvg(PlannedVector(node_id, ProbeSvgInfo(node_id)))],
                      files |->
                         LET order == SelectSeq(<<id1, id2>>, LAMBDA n : n \in uploaded)
                         IN  [k \in 1..Len(order) |->
                                 UploadInfo(PathJoin(SvgDir, GenerateFilename(order[k])))],
                      use_cdn |-> use_cdn]>>
    /\ probe_out = None

\* URLReplacer.load_url_mapping on the exported URL list
LoadMapping ==
    /\ pc = "uploaded"
    /\ pc' = "loaded"
    /\ probe_out' = <<[url_mapping |-> LoadUrlMapping(EmptyDict, probe[1].files),
                        svg_downloads |-> probe[1].svg_downloads]>>
    /\ UNCHANGED <<probe, preprocessor_vars>>

\* URLReplacer._update_svg_downloads_section
UpdateSvgDownloadsSection ==
    /\ pc = "loaded"
    /\ pc' = "replaced"
    /\ LET url_key == IF probe[1].use_cdn THEN "cdn_url" ELSE "url"
       IN  probe_out' =
             <<[probe_out[1] EXCEPT
                  !.svg_downloads =
                      [node_id \in DOMAIN probe_out[1].svg_downloads |->
                          UpdateSvgData(probe_out[1].url_mapping, node_id,
                                        probe_out[1].svg_downloads[node_id], url_key)]]>>
    /\ UNCHANGED <<probe, preprocessor_vars>>

NextReplace == LoadMapping \/ UpdateSvgDownloadsSection

SpecReplace == InitReplace /\ [][NextReplace]_vars

(***************************************************************************)
(* C26: every _svgDownloads entry marked _url_replaced carries the URLs of *)
(* the uploaded file named derive_filename of the entry's own node id.     *)
(***************************************************************************)
C26_ReplacedWithOwnFile ==
    pc = "replaced" =>
        \A node_id \in DOMAIN probe_out[1].svg_downloads :
            LET svg_data == probe_out[1].svg_downloads[node_id]
                own == UploadInfo(PathJoin(SvgDir, GenerateFilename(node_id)))
            IN  "url_replaced" \in DOMAIN svg_data =>
                  /\ \E k \in 1..Len(probe[1].files) : probe[1].files[k] = own
                  /\ svg_data.uploaded_cdn_url = own.cdn_url
                  /\ svg_data.uploaded_regular_url = own.url
                  /\ svg_data.uploaded_url = (IF probe[1].use_cdn THEN own.cdn_url
                                              ELSE own.url)

(***************************************************************************)
(* JSONProcessor.process_json_with_url_replacement on an image file and a  *)
(* map of uploaded images.                                                 *)
(***************************************************************************)
MaxImageNodes == 2

\* The upload info of one image: hosted with and without a CDN URL, known
\* by its design-tool URL only, or without any URL.
ImageData(image_ref) ==
    { [url |-> <<"url-of", image_ref>>, cdn_url |-> <<"cdn-url-of", image_ref>>,
       filename |-> <<image_ref, ".png">>],
      [url |-> <<"url-of", image_ref>>, filename |-> <<image_ref, ".png">>],
      [figma_url |-> <<"figma-url-of", image_ref>>],
      [filename |-> <<image_ref, ".png">>] }

CreateUrlMapping_RegularUrlFirst(uploaded_images, use_cdn_urls) ==
    LET mapped == { image_ref \in DOMAIN uploaded_images :
                      DOMAIN uploaded_images[image_ref] \cap
                          {"cdn_url", "url", "figma_url"} # {} }
    IN  [image_ref \in mapped |->
            LET image_data == uploaded_images[image_ref] IN
            IF "url" \in DOMAIN image_data THEN image_data.url
            ELSE IF "cdn_url" \in DOMAIN image_data THEN image_data.cdn_url
            ELSE image_data.figma_url]

\* JSONProcessor._create_url_mapping
CreateUrlMapping(uploaded_images, use_cdn_urls) ==
    LET mapped == { image_ref \in DOMAIN uploaded_images :
                      \/ use_cdn_urls /\ "cdn_url" \in DOMAIN uploaded_images[image_ref]
                      \/ "url" \in DOMAIN uploaded_images[image_ref]
                      \/ "figma_url" \in DOMAIN uploaded_images[image_ref] }
    IN  [image_ref \in mapped |->
            LET image_data == uploaded_images[image_ref] IN
            IF use_cdn_urls /\ "cdn_url" \in DOMAIN image_data THEN image_data.cdn_url
            ELSE IF "url" \in DOMAIN image_data THEN image_data.url
            ELSE image_data.figma_url]

NoReplacements ==
    [total_references_found |-> 0, successful_replacements |-> 0, missing_urls |-> <<>>]

\* What both branches do to a dict that holds the reference image_ref
ReplaceReference(paint, image_ref, url_mapping, processed) ==
    IF image_ref \in DOMAIN url_mapping
    THEN [out |-> Append(processed.out,
                         SetKeys(paint, [imageUrl |-> url_mapping[image_ref],
                                         imageReplaced |-> TRUE])),
          stats |-> [processed.stats EXCEPT !.total_references_found = @ + 1,
                                            !.successful_replacements = @ + 1]]
    ELSE [out |-> Append(processed.out, SetKeys(paint, [imageMissing |-> TRUE])),
          stats |-> [processed.stats EXCEPT !.total_references_found = @ + 1,
                                            !.missing_urls = Append(@, image_ref)]]

\* JSONProcessor._process_fills and its twin _process_backgrounds
RECURSIVE ProcessFills(_, _, _)
ProcessFills(fills, url_mapping, processed) ==
    IF fills = <<>> THEN processed
    ELSE LET fill == Head(fills)
             next == IF fill.type = "IMAGE" /\ fill.imageRef # <<>>
                     THEN ReplaceReference(fill, fill.imageRef[1], url_mapping, processed)
                     ELSE [processed EXCEPT !.out = Append(@, fill)]
         IN  ProcessFills(Tail(fills), url_mapping, next)

\* _replace_image_references_recursive on a list of dicts under any other
\* key (the legacy background): the 'imageRef' key alone decides
RECURSIVE ProcessOtherList(_, _, _)
ProcessOtherList(items, url_mapping, processed) ==
    IF items = <<>> THEN processed
    ELSE LET item == Head(items)
             next == IF item.imageRef # <<>>
                     THEN ReplaceReference(item, item.imageRef[1], url_mapping, processed)
                     ELSE [processed EXCEPT !.out = Append(@, item)]
         IN  ProcessOtherList(Tail(items), url_mapping, next)

\* One optional paint list of a node, processed by the function its key selects
ProcessKey(opt, strict, url_mapping, counts) ==
    IF opt = <<>> THEN [out |-> <<>>, stats |-> counts]
    ELSE LET done == IF strict
                     THEN ProcessFills(opt[1], url_mapping, [out |-> <<>>, stats |-> counts])
                     ELSE ProcessOtherList(opt[1], url_mapping,
                                           [out |-> <<>>, stats |-> counts])
         IN  [out |-> <<done.out>>, stats |-> done.stats]

\* _replace_image_references_recursive over the node dicts, in document
\* order; within a node the keys fills, backgrounds, background in this order
RECURSIVE ProcessNodes(_, _, _, _)
ProcessNodes(f, i, url_mapping, processed) ==
    IF i > Len(f.parent) THEN processed
    ELSE LET fills == ProcessKey(f.paints[i].fills, TRUE, url_mapping, processed.stats)
             backgrounds ==
                 ProcessKey(f.paints[i].backgrounds, TRUE, url_mapping, fills.stats)
             background ==
                 ProcessKey(f.paints[i].background, FALSE, url_mapping, backgrounds.stats)
         IN  ProcessNodes(f, i + 1, url_mapping,
                 [out |-> Append(processed.out,
                                 PaintLists(fills.out, backgrounds.out, background.out)),
                  stats |-> background.stats])

\* JSONProcessor.process_json_with_url_replacement
ProcessJsonWithUrlReplacement(json_data, uploaded_images, use_cdn_urls) ==
    LET url_mapping == CreateUrlMapping(uploaded_images, use_cdn_urls)
        processed == ProcessNodes(json_data, 1, url_mapping,
                                  [out |-> <<>>, stats |-> NoReplacements])
    IN  [parent |-> json_data.parent, id |-> json_data.id,
         paints |-> processed.out,
         urlReplacements |-> [use_cdn_urls |-> use_cdn_urls,
                              statistics |-> processed.stats,
                              url_mapping_count |-> Cardinality(DOMAIN url_mapping)]]

InitJsonProcessor ==
    /\ Idle
    /\ pc = "unprocessed"
    /\ \E n \in 0..MaxImageNodes : \E p \in Shapes(n) : \E k \in [1..n -> ImagePalette] :
       \E refs \in SUBSET {"refA", "refB"} : \E use_cdn_urls \in BOOLEAN :
       \E uploaded_images \in [refs -> UNION { ImageData(r) : r \in refs }] :
           /\ \A r \in refs : uploaded_images[r] \in ImageData(r)
           /\ probe = <<[json_data |-> ImageFile(p, k),
                         uploaded_images |-> uploaded_images,
                         use_cdn_urls |-> use_cdn_urls]>>
    /\ probe_out = None

CallProcessJson ==
    /\ pc = "unprocessed"
    /\ pc' = "processed"
    /\ probe_out' = <<ProcessJsonWithUrlReplacement(probe[1].json_data,
                                                     probe[1].uploaded_images,
                                                     probe[1].use_cdn_urls)>>
    /\ UNCHANGED <<probe, preprocessor_vars>>

NextJsonProcessor == CallProcessJson

SpecJsonProcessor == InitJsonProcessor /\ [][NextJsonProcessor]_vars

(***************************************************************************)
(* C23: in the returned document every IMAGE paint of a fills or           *)
(* backgrounds list whose imageRef is a key of the uploaded-images map     *)
(* keeps its imageRef and type and, when use_cdn_urls is true and the      *)
(* image has a cdn_url, has imageUrl equal to that cdn_url and             *)
(* _imageReplaced true; with any hosted or design-tool URL at all it is    *)
(* marked _imageReplaced and never _imageMissing.                          *)
(***************************************************************************)
C23_ImagePaintsGainUrl ==
    pc = "processed" =>
        \A i \in 1..Len(probe[1].json_data.parent) :
          \A key \in {"fills", "backgrounds"} :
            LET before == probe[1].json_data.paints[i][key]
                after == probe_out[1].paints[i][key]
            IN  /\ Len(after) = Len(before)
                /\ before # <<>> =>
                     /\ Len(after[1]) = Len(before[1])
                     /\ \A k \in 1..Len(before[1]) :
                          LET paint == before[1][k]
                              new_paint == after[1][k]
                          IN  /\ new_paint.type = paint.type
                              /\ new_paint.imageRef = paint.imageRef
                              /\ ( /\ paint.type = "IMAGE"
                                   /\ paint.imageRef # <<>>
                                   /\ paint.imageRef[1] \in DOMAIN probe[1].uploaded_images )
                                 => LET image_data ==
                                            probe[1].uploaded_images[paint.imageRef[1]]
                                    IN  /\ ( probe[1].use_cdn_urls
                                             /\ "cdn_url" \in DOMAIN image_data )
                                           => /\ "imageUrl" \in DOMAIN new_paint
                                              /\ new_paint.imageUrl = image_data.cdn_url
                                              /\ "imageReplaced" \in DOMAIN new_paint
                                              /\ new_paint.imageReplaced
                                        /\ DOMAIN image_data \cap
                                               {"cdn_url", "url", "figma_url"} # {}
                                           => /\ "imageReplaced" \in DOMAIN new_paint
                                              /\ "imageMissing" \notin DOMAIN new_paint

\* One node with two IMAGE fills, refA uploaded with a CDN URL and refB not
\* uploaded: one replacement, one missing.
C23_Witness ==
    /\ pc = "processed"
    /\ probe[1].use_cdn_urls
    /\ DOMAIN probe[1].uploaded_images = {"refA"}
    /\ "cdn_url" \in DOMAIN probe[1].uploaded_images["refA"]
    /\ probe_out[1].urlReplacements.statistics.successful_replacements = 1
    /\ probe_out[1].urlReplacements.statistics.missing_urls = <<"refB">>
    /\ \E i \in 1..Len(probe_out[1].paints) :
          /\ probe_out[1].paints[i].fills # <<>>
          /\ \E k \in 1..Len(probe_out[1].paints[i].fills[1]) :
                LET new_fill == probe_out[1].paints[i].fills[1][k] IN
                /\ "imageUrl" \in DOMAIN new_fill
                /\ new_fill.imageUrl = <<"cdn-url-of", "refA">>
                /\ new_fill.imageRef = <<"refA">>

(***************************************************************************)
(* main(): the stages after the JSON file is saved. Upload to the bucket   *)
(* with the export of the URL list, URL replacement, cleanup.              *)
(***************************************************************************)
ImageFileNames == {"imgA.png"}

SvgFileNames == {"1_1.svg", "1_2.svg"}

RemoteFileNames == {"0_9.svg"}

\* DigitalOceanUploader.upload_directory: the files of an existing local
\* directory whose upload_file call succeeded
UploadDirectory(dir, succeeding) ==
    IF dir = <<>> THEN {} ELSE dir[1] \cap succeeding

\* DigitalOceanUploader.export_urls_to_json: this session's uploads, then
\* the listed remote files not among them, written to output_file; on an
\* exception raised before the file is opened the file is left as it was,
\* on one raised while writing it is left incomplete. The result is False
\* in both cases.
ExportUrlsToJson(urls_file, uploaded_files, remote_files, outcome) ==
    CASE outcome = "written" ->
             <<[written_by |-> "this_run", complete |-> TRUE,
                files |-> uploaded_files \cup (remote_files \ uploaded_files)]>>
      [] outcome = "failed_writing" ->
             <<[written_by |-> "this_run", complete |-> FALSE, files |-> {}]>>
      [] outcome = "failed_before_open" -> urls_file

UploadNeeded(args) ==
    (args.downloaded_images # {} \/ args.downloaded_svgs # {}) /\ ~args.skip_upload

InitMain ==
    /\ Idle
    /\ pc = "json_saved"
    /\ \E downloaded_images \in SUBSET ImageFileNames :
       \E downloaded_svgs \in SUBSET SvgFileNames :
       \E skip_upload \in BOOLEAN : \E cleanup \in BOOLEAN :
       \E remote_files \in SUBSET RemoteFileNames :
       \E earlier_urls \in {<<>>, <<[written_by |-> "earlier_run", complete |-> TRUE,
                                     files |-> RemoteFileNames]>>} :
           /\ probe = <<[downloaded_images |-> downloaded_images,
                         downloaded_svgs |-> downloaded_svgs,
                         skip_upload |-> skip_upload,
                         cleanup |-> cleanup,
                         remote_files |-> remote_files]>>
           /\ probe_out =
                <<[images_dir |-> IF downloaded_images = {} THEN <<>>
                                  ELSE <<downloaded_images>>,
                   svg_dir |-> IF downloaded_svgs = {} THEN <<>> ELSE <<downloaded_svgs>>,
                   urls_path |-> earlier_urls,
                   uploaded_files |-> {},
                   stages |-> <<>>,
                   url_mapping_source |-> <<>>,
                   enhanced_json |-> FALSE]>>

\* main.py 406-463
UploadStage ==
    /\ pc = "json_saved"
    /\ pc' = "upload_done"
    /\ IF UploadNeeded(probe[1])
       THEN \E succeeding \in SUBSET (ImageFileNames \cup SvgFileNames) :
            \E outcome \in {"written", "failed_writing", "failed_before_open"} :
              LET images == IF probe[1].downloaded_images # {}
                            THEN UploadDirectory(probe_out[1].images_dir, succeeding)
                            ELSE {}
                  svgs == IF probe[1].downloaded_svgs # {}
                          THEN UploadDirectory(probe_out[1].svg_dir, succeeding)
                          ELSE {}
              IN  probe_out' =
                    <<[probe_out[1] EXCEPT
                         !.uploaded_files = images \cup svgs,
                         !.urls_path = ExportUrlsToJson(@, images \cup svgs,
                                                        probe[1].remote_files, outcome),
                         !.stages = Append(@, "upload")]>>
       ELSE probe_out' = probe_out
    /\ UNCHANGED <<probe, preprocessor_vars>>

\* main.py 465-529: create_url_replaced_json raises when the URL list cannot
\* be loaded, which main catches
UrlReplacementStage ==
    /\ pc = "upload_done"
    /\ pc' = "replacement_done"
    /\ IF UploadNeeded(probe[1]) /\ probe_out[1].urls_path # <<>>
       THEN probe_out' =
              <<[probe_out[1] EXCEPT
                   !.stages = Append(@, "url_replacement"),
                   !.url_mapping_source = probe_out[1].urls_path,
                   !.enhanced_json = probe_out[1].urls_path[1].complete]>>
       ELSE probe_out' = probe_out
    /\ UNCHANGED <<probe, preprocessor_vars>>

\* main.py 541-556
CleanupStage ==
    /\ pc = "replacement_done"
    /\ pc' = "finished"
    /\ IF probe[1].cleanup
          /\ (probe[1].downloaded_images # {} \/ probe[1].downloaded_svgs # {})
       THEN probe_out' =
              <<[probe_out[1] EXCEPT
                   !.images_dir = IF probe[1].downloaded_images # {} THEN <<>> ELSE @,
                   !.svg_dir = IF probe[1].downloaded_svgs # {} THEN <<>> ELSE @,
                   !.stages = Append(@, "cleanup")]>>
       ELSE probe_out' = probe_out
    /\ UNCHANGED <<probe, preprocessor_vars>>

NextMain == UploadStage \/ UrlReplacementStage \/ CleanupStage

SpecMain == InitMain /\ [][NextMain]_vars

StageRan(stage) == \E k \in 1..Len(probe_out[1].stages) : probe_out[1].stages[k] = stage

(***************************************************************************)
(* C24: when the cleanup has removed the images or the svg_icons directory *)
(* of a run, the upload stage of that run ran before it and uploaded the   *)
(* files the directory held.                                               *)
(***************************************************************************)
C24_CleanupOnlyAfterUpload ==
    (pc = "finished" /\ StageRan("cleanup")) =>
        /\ StageRan("upload")
        /\ probe[1].downloaded_images \cup probe[1].downloaded_svgs
               \subseteq probe_out[1].uploaded_files

(***************************************************************************)
(* C29: when the URL-replacement stage has run, upload was not skipped,    *)
(* something was downloaded, the upload stage of this run ran before it,   *)
(* and the URL list it loaded was written by this run.                     *)
(***************************************************************************)
C29_ReplacementReadsOwnUrlList ==
    StageRan("url_replacement") =>
        /\ ~probe[1].skip_upload
        /\ probe[1].downloaded_images \cup probe[1].downloaded_svgs # {}
        /\ probe_out[1].stages[1] = "upload"
        /\ probe_out[1].url_mapping_source[1].written_by = "this_run"

====
